---- MODULE Spec2Model ----
(***************************************************************************)
(* Model of drivers/phy/phy-rockchip-inno-usb2.c: the bit-field register   *)
(* accessors (property_enable / property_enabled), the charger detection   *)
(* sequence rockchip_chg_get_type and the port suspend operations.         *)
(***************************************************************************)
EXTENDS Integers, Sequences, FiniteSets, TLC

(***************************************************************************)
(* Program constants                                                       *)
(***************************************************************************)
U2PHY_BIT_WRITEABLE_SHIFT == 16
CHG_DCD_MAX_RETRIES == 6
CHG_PRI_MAX_RETRIES == 2
CHG_DCD_POLL_TIME == 100
CHG_PRIMARY_DET_TIME == 40
CHG_SECONDARY_DET_TIME == 40

\* enum power_supply_type
POWER_SUPPLY_TYPE_UNKNOWN == 0
POWER_SUPPLY_TYPE_USB == 1
POWER_SUPPLY_TYPE_USB_DCP == 2
POWER_SUPPLY_TYPE_USB_CDP == 3
POWER_SUPPLY_TYPE_USB_FLOATING == 4

\* enum rockchip_usb2phy_port_id
USB2PHY_PORT_OTG == 0
USB2PHY_PORT_HOST == 1
USB2PHY_NUM_PORTS == 2

\* errno values returned (negated) by the device lookup
ENODEV == 19
EINVAL == 22
\* errno of a register access that does not reach the register space
EIO == 5
\* errno of a regulator that cannot be switched
ENOSYS == 38

(***************************************************************************)
(* 32-bit and 8-bit unsigned arithmetic.  A u32 is the set of its one      *)
(* bits (positions 0..31), so that the C bit operators are set operators   *)
(* and a shift drops the bits that leave the word.                         *)
(***************************************************************************)
BitPos == 0 .. 31
LowHalf == 0 .. 15
HighHalf == 16 .. 31

\* the u32 holding the number n
RECURSIVE BitsFrom(_, _)
BitsFrom(n, i) ==
  IF n = 0 THEN {}
  ELSE (IF n % 2 = 1 THEN { i } ELSE {}) \cup BitsFrom(n \div 2, i + 1)
Bits(n) == BitsFrom(n, 0) \cap BitPos

\* a << n on a u32
Shl(a, n) == { i + n : i \in a } \cap BitPos
\* a >> n on a u32
Shr(a, n) == { i - n : i \in { j \in a : j >= n } }

BitAnd(a, b) == a \cap b
BitOr(a, b) == a \cup b
\* ~a on a u32
BitNot(a) == BitPos \ a

\* GENMASK(h, l): bits l..h set
GENMASK(h, l) == BitAnd(Shl(BitPos, l), Shr(BitPos, 31 - h))

U8 == 256
\* u8 post-decrement: the value stored by "x--"
DecU8(x) == (x + U8 - 1) % U8

(***************************************************************************)
(* struct usb2phy_reg and the per-variant register tables                  *)
(***************************************************************************)
Reg(o, e, s, d, en) ==
  [offset |-> o, bitend |-> e, bitstart |-> s, disable |-> d, enable |-> en]

\* a field the table entry does not initialise (all members zero)
Absent == Reg(0, 0, 0, 0, 0)

NoChgDet ==
  [opmode |-> Absent, cp_det |-> Absent, dcp_det |-> Absent, dp_det |-> Absent,
   idm_sink_en |-> Absent, idp_sink_en |-> Absent, idp_src_en |-> Absent,
   rdm_pdwn_en |-> Absent, vdm_src_en |-> Absent, vdp_src_en |-> Absent]

\* rk1808_phy_cfgs[0] (reg 0x100)
rk1808_cfg ==
  [name |-> "rk1808", legacy |-> FALSE, gpio_build |-> FALSE,
   num_ports |-> 2, ports |-> { USB2PHY_PORT_OTG, USB2PHY_PORT_HOST },
   phy_sus |-> << Reg(\h0100, 8, 0, 0, \h1d1), Reg(\h0104, 8, 0, 0, \h1d1) >>,
   clkout_ctl |-> Reg(\h0108, 4, 4, 1, 0),
   utmi_bvalid |-> Reg(\h0120, 9, 9, 0, 1),
   chg_det |->
     [opmode |-> Reg(\h0100, 3, 0, 5, 1),
      cp_det |-> Reg(\h0120, 24, 24, 0, 1),
      dcp_det |-> Reg(\h0120, 23, 23, 0, 1),
      dp_det |-> Reg(\h0120, 25, 25, 0, 1),
      idm_sink_en |-> Reg(\h0108, 8, 8, 0, 1),
      idp_sink_en |-> Reg(\h0108, 7, 7, 0, 1),
      idp_src_en |-> Reg(\h0108, 9, 9, 0, 1),
      rdm_pdwn_en |-> Reg(\h0108, 10, 10, 0, 1),
      vdm_src_en |-> Reg(\h0108, 12, 12, 0, 1),
      vdp_src_en |-> Reg(\h0108, 11, 11, 0, 1)]]

\* rk3036_phy_cfgs[0] (reg 0x17c), built with CONFIG_ROCKCHIP_RK3036
rk3036_cfg ==
  [name |-> "rk3036", legacy |-> TRUE, gpio_build |-> FALSE,
   num_ports |-> 2, ports |-> { USB2PHY_PORT_OTG, USB2PHY_PORT_HOST },
   phy_sus |-> << Reg(\h017c, 8, 0, 0, \h1d1), Reg(\h0194, 8, 0, 0, \h1d1) >>,
   clkout_ctl |-> Reg(\h017c, 11, 11, 1, 0),
   utmi_bvalid |-> Reg(\h014c, 5, 5, 0, 1),
   chg_det |-> NoChgDet]

\* rk322x_phy_cfgs[1] (reg 0x800): no utmi_bvalid, no chg_det
rk322x_800_cfg ==
  [name |-> "rk322x_800", legacy |-> FALSE, gpio_build |-> FALSE,
   num_ports |-> 2, ports |-> { USB2PHY_PORT_OTG, USB2PHY_PORT_HOST },
   phy_sus |-> << Reg(\h0804, 8, 0, 0, \h1d1), Reg(\h0800, 8, 0, 0, \h1d1) >>,
   clkout_ctl |-> Reg(\h0808, 4, 4, 1, 0),
   utmi_bvalid |-> Absent,
   chg_det |-> NoChgDet]

\* rk3399_phy_cfgs[0] (reg 0xe450)
rk3399_cfg ==
  [name |-> "rk3399", legacy |-> FALSE, gpio_build |-> FALSE,
   num_ports |-> 2, ports |-> { USB2PHY_PORT_OTG, USB2PHY_PORT_HOST },
   phy_sus |-> << Reg(\he454, 8, 0, \h052, \h1d1), Reg(\he458, 1, 0, 2, 1) >>,
   clkout_ctl |-> Reg(\he450, 4, 4, 1, 0),
   utmi_bvalid |-> Reg(\he2ac, 12, 12, 0, 1),
   chg_det |->
     [opmode |-> Reg(\he454, 3, 0, 5, 1),
      cp_det |-> Reg(\he2ac, 2, 2, 0, 1),
      dcp_det |-> Reg(\he2ac, 1, 1, 0, 1),
      dp_det |-> Reg(\he2ac, 0, 0, 0, 1),
      idm_sink_en |-> Reg(\he450, 8, 8, 0, 1),
      idp_sink_en |-> Reg(\he450, 7, 7, 0, 1),
      idp_src_en |-> Reg(\he450, 9, 9, 0, 1),
      rdm_pdwn_en |-> Reg(\he450, 10, 10, 0, 1),
      vdm_src_en |-> Reg(\he450, 12, 12, 0, 1),
      vdp_src_en |-> Reg(\he450, 11, 11, 0, 1)]]

\* rk3506_phy_cfgs[0] (reg 0xff2b0000), built with CONFIG_ROCKCHIP_RK3506
rk3506_cfg ==
  [name |-> "rk3506", legacy |-> FALSE, gpio_build |-> TRUE,
   num_ports |-> 2, ports |-> { USB2PHY_PORT_OTG, USB2PHY_PORT_HOST },
   phy_sus |-> << Reg(\h0060, 8, 0, 0, \h1d1), Reg(\h0070, 8, 0, \h1d2, \h1d1) >>,
   clkout_ctl |-> Absent,
   utmi_bvalid |-> Reg(\h0118, 0, 0, 0, 1),
   chg_det |->
     [opmode |-> Reg(\h0060, 3, 0, 5, 1),
      cp_det |-> Reg(\h0118, 19, 19, 0, 1),
      dcp_det |-> Reg(\h0118, 18, 18, 0, 1),
      dp_det |-> Reg(\h0118, 20, 20, 0, 1),
      idm_sink_en |-> Reg(\h006c, 1, 1, 0, 1),
      idp_sink_en |-> Reg(\h006c, 0, 0, 0, 1),
      idp_src_en |-> Reg(\h006c, 2, 2, 0, 1),
      rdm_pdwn_en |-> Reg(\h006c, 3, 3, 0, 1),
      vdm_src_en |-> Reg(\h006c, 5, 5, 0, 1),
      vdp_src_en |-> Reg(\h006c, 4, 4, 0, 1)]]

\* rk3576_phy_cfgs[0] (reg 0x0000): OTG port only, opmode on the bits of phy_sus
rk3576_cfg ==
  [name |-> "rk3576", legacy |-> FALSE, gpio_build |-> FALSE,
   num_ports |-> 1, ports |-> { USB2PHY_PORT_OTG },
   phy_sus |-> << Reg(\h0000, 8, 0, 0, \h1d1), Absent >>,
   clkout_ctl |-> Reg(\h0008, 0, 0, 1, 0),
   utmi_bvalid |-> Reg(\h0080, 0, 0, 0, 1),
   chg_det |->
     [opmode |-> Reg(\h0000, 8, 0, \h055, \h001),
      cp_det |-> Reg(\h0080, 8, 8, 0, 1),
      dcp_det |-> Reg(\h0080, 8, 8, 0, 1),
      dp_det |-> Reg(\h0080, 9, 9, 1, 0),
      idm_sink_en |-> Reg(\h0010, 5, 5, 1, 0),
      idp_sink_en |-> Reg(\h0010, 5, 5, 0, 1),
      idp_src_en |-> Reg(\h0010, 14, 14, 0, 1),
      rdm_pdwn_en |-> Reg(\h0010, 14, 14, 0, 1),
      vdm_src_en |-> Reg(\h0010, 7, 6, 0, 3),
      vdp_src_en |-> Reg(\h0010, 7, 6, 0, 3)]]

\* rk3588_phy_cfgs[0] (reg 0x0000): OTG port only
rk3588_cfg ==
  [name |-> "rk3588", legacy |-> FALSE, gpio_build |-> FALSE,
   num_ports |-> 1, ports |-> { USB2PHY_PORT_OTG },
   phy_sus |-> << Reg(\h000c, 11, 11, 0, 1), Absent >>,
   clkout_ctl |-> Reg(\h0000, 0, 0, 1, 0),
   utmi_bvalid |-> Reg(\h00c0, 6, 6, 0, 1),
   chg_det |->
     [opmode |-> Reg(\h0008, 2, 2, 1, 0),
      cp_det |-> Reg(\h00c0, 0, 0, 0, 1),
      dcp_det |-> Reg(\h00c0, 0, 0, 0, 1),
      dp_det |-> Reg(\h00c0, 1, 1, 1, 0),
      idm_sink_en |-> Reg(\h0008, 5, 5, 1, 0),
      idp_sink_en |-> Reg(\h0008, 5, 5, 0, 1),
      idp_src_en |-> Reg(\h0008, 14, 14, 0, 1),
      rdm_pdwn_en |-> Reg(\h0008, 14, 14, 0, 1),
      vdm_src_en |-> Reg(\h0008, 7, 6, 0, 3),
      vdp_src_en |-> Reg(\h0008, 7, 6, 0, 3)]]

\* rk3588_phy_cfgs[1] (reg 0x4000): phy_sus with enable = disable, no chg_det
rk3588_4000_cfg ==
  [name |-> "rk3588_4000", legacy |-> FALSE, gpio_build |-> FALSE,
   num_ports |-> 1, ports |-> { USB2PHY_PORT_OTG },
   phy_sus |-> << Reg(\h000c, 11, 11, 0, 0), Absent >>,
   clkout_ctl |-> Reg(\h0000, 0, 0, 1, 0),
   utmi_bvalid |-> Absent,
   chg_det |-> NoChgDet]

\* rk3588_phy_cfgs[2] (reg 0x8000): HOST port only, no utmi_bvalid, no chg_det
rk3588_8000_cfg ==
  [name |-> "rk3588_8000", legacy |-> FALSE, gpio_build |-> FALSE,
   num_ports |-> 1, ports |-> { USB2PHY_PORT_HOST },
   phy_sus |-> << Absent, Reg(\h0008, 2, 2, 0, 1) >>,
   clkout_ctl |-> Reg(\h0000, 0, 0, 1, 0),
   utmi_bvalid |-> Absent,
   chg_det |-> NoChgDet]

\* the table entries (struct rockchip_usb2phy_cfg) a PHY instance may be bound to
PhyCfgs ==
  { rk1808_cfg, rk3036_cfg, rk322x_800_cfg, rk3399_cfg, rk3506_cfg,
    rk3576_cfg, rk3588_cfg, rk3588_4000_cfg, rk3588_8000_cfg }

ChgFieldNames ==
  { "opmode", "cp_det", "dcp_det", "dp_det", "idm_sink_en", "idp_sink_en",
    "idp_src_en", "rdm_pdwn_en", "vdm_src_en", "vdp_src_en" }

\* every register offset an entry's descriptors name
CfgOffsets(c) ==
  { c.phy_sus[1].offset, c.phy_sus[2].offset, c.utmi_bvalid.offset,
    c.clkout_ctl.offset }
    \cup { c.chg_det[f].offset : f \in ChgFieldNames }

(***************************************************************************)
(* Property accessors and the register space                               *)
(***************************************************************************)
\* mutant: the write-enable mask runs from bit 0 up to bitend
property_enable_WideMask(reg, en) ==
  LET tmp == Bits(IF en THEN reg.enable ELSE reg.disable)
      mask == GENMASK(reg.bitend, 0)
  IN  BitOr(Shl(tmp, reg.bitstart), Shl(mask, U2PHY_BIT_WRITEABLE_SHIFT))

\* mutant: the enable encoding is written whatever en is
property_enable_AlwaysEnable(reg, en) ==
  LET tmp == Bits(reg.enable)
      mask == GENMASK(reg.bitend, reg.bitstart)
  IN  BitOr(Shl(tmp, reg.bitstart), Shl(mask, U2PHY_BIT_WRITEABLE_SHIFT))

\* mutant: the write-enable mask is not moved to the upper half
property_enable_NoShift(reg, en) ==
  LET tmp == Bits(IF en THEN reg.enable ELSE reg.disable)
      mask == GENMASK(reg.bitend, reg.bitstart)
  IN  BitOr(Shl(tmp, reg.bitstart), mask)

\* property_enable: the 32-bit word handed to regmap_write for reg/en
property_enable(reg, en) ==
  LET tmp == Bits(IF en THEN reg.enable ELSE reg.disable)
      mask == GENMASK(reg.bitend, reg.bitstart)
  IN  BitOr(Shl(tmp, reg.bitstart), Shl(mask, U2PHY_BIT_WRITEABLE_SHIFT))

\* mutant: the masked bits are compared without shifting them down
property_enabled_Unshifted(rs, reg) ==
  LET mask == GENMASK(reg.bitend, reg.bitstart)
      orig == rs[reg.offset]
      tmp == BitAnd(orig, mask)
  IN  tmp = Bits(reg.enable)

\* mutant: "non-zero" instead of "equal to reg->enable"
property_enabled_NonZero(rs, reg) ==
  LET mask == GENMASK(reg.bitend, reg.bitstart)
      orig == rs[reg.offset]
      tmp == Shr(BitAnd(orig, mask), reg.bitstart)
  IN  tmp # {}

\* property_enabled: exact match of the extracted bit range with reg.enable
property_enabled(rs, reg) ==
  LET mask == GENMASK(reg.bitend, reg.bitstart)
      orig == rs[reg.offset]
      tmp == Shr(BitAnd(orig, mask), reg.bitstart)
  IN  tmp = Bits(reg.enable)

\* The register space: bits 31..16 of the written word select which of the
\* bits 15..0 are replaced; bits 31..16 of the register are not writable.
regmap_write(rs, offset, val) ==
  LET wmask == Shr(val, 16)
      data == BitAnd(val, LowHalf)
      old == rs[offset]
      low == BitOr(BitAnd(BitAnd(old, LowHalf), BitNot(wmask)),
                   BitAnd(data, wmask))
  IN  [rs EXCEPT ![offset] = BitOr(BitAnd(old, HighHalf), low)]

\* The hardware drives a status field to the value v before it is sampled.
HwDrive(rs, reg, v) ==
  LET mask == GENMASK(reg.bitend, reg.bitstart)
      old == rs[reg.offset]
  IN  [rs EXCEPT ![reg.offset] =
         BitOr(BitAnd(old, BitNot(mask)),
               BitAnd(Shl(Bits(v), reg.bitstart), mask))]

(***************************************************************************)
(* State                                                                   *)
(***************************************************************************)
VARIABLES
  cfg,              \* rphy->phy_cfg: the table entry bound at probe
  regs,             \* the register bank returned by get_reg_base
  dcd_retries,      \* rphy->dcd_retries (u8)
  primary_retries,  \* rphy->primary_retries (u8)
  pc,               \* position inside rockchip_chg_get_type
  chg_type,         \* local chg_type of rockchip_chg_get_type
  ret,              \* value returned by the last completed call
  op,               \* the operation called last
  log,              \* register accesses, gpio reads and delays of that call
  slept,            \* microseconds slept by that call
  bus,              \* whether regmap_read / regmap_write reach the registers
  caller,           \* who called rockchip_chg_get_type
  detected,         \* value returned by the last rockchip_u2phy_vbus_detect
  vbus_supply,      \* rphy->vbus_supply[]: is a regulator bound to the port
  phy_cfgs,         \* probe: the variant table handed over as driver data
  dt_reg,           \* probe: the "reg" hardware identifier of the node
  index,            \* probe: loop index into phy_cfgs
  matched,          \* probe: index rphy->phy_cfg points to, -1 for NULL
  overrun,          \* probe: elements examined past the table's last one
  probe_pc,         \* probe: position inside rockchip_usb2phy_probe
  other,            \* a second call on the same rphy, while it is not running
  usbgrf_base       \* rphy->usbgrf_base: the USB GRF regmap, or NULL

\* the state of rockchip_usb2phy_probe's table lookup
probe_vars == << phy_cfgs, dt_reg, index, matched, overrun, probe_pc >>
\* state no step of rockchip_chg_get_type changes
env == << bus, vbus_supply, probe_vars, other, usbgrf_base >>
ext == << env, caller, detected >>

vars ==
  << cfg, regs, dcd_retries, primary_retries, pc, chg_type, ret, op, log,
     slept, ext >>

\* register contents found at power-up
InitWords == { {}, BitPos }

\* values a failing or succeeding uclass_get_device_by_name returns
LookupRets == { 0, -ENODEV, -EINVAL }

\* rockchip_chg_get_type is called directly or by rockchip_u2phy_vbus_detect
Callers == { "direct", "vbus_detect" }

Types ==
  { POWER_SUPPLY_TYPE_UNKNOWN, POWER_SUPPLY_TYPE_USB, POWER_SUPPLY_TYPE_USB_DCP,
    POWER_SUPPLY_TYPE_USB_CDP, POWER_SUPPLY_TYPE_USB_FLOATING }

\* what regmap_read / regmap_write return
BusErr == IF bus = "ok" THEN 0 ELSE -EIO

\* the regmaps of rphy: the GRF, which probe insists on, and the USB GRF,
\* which a node may name or not
NULL == "NULL"
grf_base == "grf"
Banks == { "usbgrf", NULL }

\* mutant: the GRF whether there is a USB GRF or not
get_reg_base_Grf == grf_base

\* get_reg_base(rphy)
get_reg_base == IF usbgrf_base = NULL THEN grf_base ELSE usbgrf_base

\* log entries: err is what the regmap access returned, rv what the accessor
\* returned to its caller (property_enable: the regmap_write value;
\* property_enabled: the bool, 1 or 0)
EvWrite(f, reg, en) ==
  [op |-> "write", fld |-> f, en |-> en, offset |-> reg.offset,
   val |-> property_enable(reg, en), err |-> BusErr, rv |-> BusErr,
   base |-> get_reg_base]
EvRead(f, reg, res) ==
  [op |-> "read", fld |-> f, en |-> res, offset |-> reg.offset, val |-> {},
   err |-> BusErr, rv |-> IF res THEN 1 ELSE 0, base |-> get_reg_base]
EvGpio(level) ==
  [op |-> "gpio", fld |-> "vbus_det_gpio", en |-> level, offset |-> 0,
   val |-> {}, err |-> 0, rv |-> 0, base |-> NULL]
EvDelay(us) ==
  [op |-> "delay", fld |-> "", en |-> FALSE, offset |-> us, val |-> {},
   err |-> 0, rv |-> 0, base |-> NULL]
\* regulator_set_enable(rphy->vbus_supply[id], en) returning e
EvRegulator(id, en, e) ==
  [op |-> "regulator", fld |-> "vbus_supply", en |-> en, offset |-> id,
   val |-> {}, err |-> e, rv |-> e, base |-> NULL]

\* a machine state threaded through the statements of one step
Mach == [regs |-> regs, log |-> log, slept |-> slept]

\* property_enable(base, reg, en) as a statement
DoWrite(m0, f, reg, en) ==
  CHOOSE r \in
    { [regs |-> IF bus = "ok"
                 THEN regmap_write(m.regs, reg.offset, property_enable(reg, en))
                 ELSE m.regs,
       log |-> Append(m.log, EvWrite(f, reg, en)),
       slept |-> m.slept] : m \in { m0 } } : TRUE

\* property_enabled(base, reg) on a status field the hardware drives to v.
\* When regmap_read fails, orig keeps its uninitialised value and the result
\* is whatever that value compares to: either boolean (v = 1 or v = 0).
Sample(rs, reg, v) ==
  IF bus = "ok" THEN property_enabled(HwDrive(rs, reg, v), reg) ELSE v = 1

\* the same as a statement
DoRead(m0, f, reg, v) ==
  CHOOSE r \in
    { [regs |-> m.regs,
       log |-> Append(m.log, EvRead(f, reg, Sample(m.regs, reg, v))),
       slept |-> m.slept] : m \in { m0 } } : TRUE

\* mdelay(ms) / udelay(us)
udelay(m0, us) ==
  CHOOSE r \in
    { [regs |-> m.regs,
       log |-> Append(m.log, EvDelay(us)),
       slept |-> m.slept + us] : m \in { m0 } } : TRUE
mdelay(m, ms) == udelay(m, ms * 1000)

Commit(m0) ==
  \E m \in { m0 } :
    /\ regs' = m.regs
    /\ log' = m.log
    /\ slept' = m.slept

\* mutant: the Host port's suspend field is taken for the OTG port's
OtgPort_Host == cfg.phy_sus[USB2PHY_PORT_HOST + 1]

\* port_cfg = &rphy->phy_cfg->port_cfgs[USB2PHY_PORT_OTG]
OtgPort == cfg.phy_sus[USB2PHY_PORT_OTG + 1]
Chg == cfg.chg_det

rockchip_chg_enable_dcd(m, en) ==
  DoWrite(DoWrite(m, "rdm_pdwn_en", Chg.rdm_pdwn_en, en),
          "idp_src_en", Chg.idp_src_en, en)

rockchip_chg_enable_primary_det(m, en) ==
  DoWrite(DoWrite(m, "vdp_src_en", Chg.vdp_src_en, en),
          "idm_sink_en", Chg.idm_sink_en, en)

rockchip_chg_enable_secondary_det(m, en) ==
  DoWrite(DoWrite(m, "vdm_src_en", Chg.vdm_src_en, en),
          "idp_sink_en", Chg.idp_sink_en, en)

\* the ports a table entry has room for: port_cfgs[USB2PHY_NUM_PORTS]
Ports == { USB2PHY_PORT_OTG, USB2PHY_PORT_HOST }

\* a 32-bit register identifier as << upper half-word, lower half-word >>
U32(hi, lo) == << hi, lo >>
Zero == U32(0, 0)

\* probe has run and bound a table entry
\* what a call keeps for itself (its locals, its place, what it has done so
\* far) and the retry budgets as it last saw them; NoCall: no second call yet
NoCall ==
  [pc |-> "idle", chg_type |-> POWER_SUPPLY_TYPE_UNKNOWN, ret |-> 0,
   op |-> "none", log |-> << >>, slept |-> 0, caller |-> "direct",
   detected |-> 0, dcd |-> 0, pri |-> 0]

Bound ==
  /\ phy_cfgs = << >>
  /\ dt_reg = Zero
  /\ index = 0
  /\ matched = 0
  /\ overrun = 0
  /\ probe_pc = "bound"

\* everything of the state after probe but the USB GRF
InitCall ==
  /\ cfg \in PhyCfgs
  /\ \E w \in InitWords : regs = [o \in CfgOffsets(cfg) |-> w]
  /\ dcd_retries = 0
  /\ primary_retries = 0
  /\ pc = "idle"
  /\ chg_type = POWER_SUPPLY_TYPE_UNKNOWN
  /\ ret = 0
  /\ op = "none"
  /\ log = << >>
  /\ slept = 0
  /\ bus = "ok"
  /\ caller = "direct"
  /\ detected = 0
  /\ vbus_supply = [p \in Ports |-> FALSE]
  /\ other = NoCall
  /\ Bound

\* a node without "rockchip,usbgrf": probe leaves usbgrf_base NULL
Init ==
  /\ usbgrf_base = NULL
  /\ InitCall

\* no call is in progress: nothing was called yet, or the last call returned
\* to its caller
Idle ==
  \/ pc \in { "idle", "detected" }
  \/ pc = "done" /\ caller = "direct"

(***************************************************************************)
(* rockchip_chg_get_type                                                   *)
(***************************************************************************)
\* return value: the call is over
Return(v) ==
  /\ ret' = v
  /\ pc' = "done"

\* mutant: a failed lookup is swallowed and reported as "no charger"
GetTypeLookup_SwallowError ==
  /\ Idle
  /\ op' = "chg_get_type"
  /\ log' = << >>
  /\ slept' = 0
  /\ \E r1 \in LookupRets, r2 \in LookupRets :
       IF r1 = 0 \/ (r1 = -ENODEV /\ r2 = 0)
       THEN pc' = "vbus" /\ ret' = 0
       ELSE Return(POWER_SUPPLY_TYPE_UNKNOWN)
  /\ chg_type' = POWER_SUPPLY_TYPE_UNKNOWN
  /\ caller' \in Callers
  /\ detected' = 0
  /\ UNCHANGED << cfg, env, regs, dcd_retries, primary_retries >>

\* the two uclass_get_device_by_name lookups; a first lookup failing with an
\* error other than -ENODEV leaves udev without a device and the code goes
\* on to dereference it: the call then either faults or finds a stale device.
GetTypeLookup ==
  /\ Idle
  /\ op' = "chg_get_type"
  /\ log' = << >>
  /\ slept' = 0
  /\ \E r1 \in LookupRets, r2 \in LookupRets :
       IF r1 = 0 \/ (r1 = -ENODEV /\ r2 = 0)
       THEN pc' = "vbus" /\ ret' = 0
       ELSE IF r1 = -ENODEV
       THEN Return(r2)
       ELSE /\ pc' \in { "fault", "vbus" }
            /\ ret' = 0
  /\ chg_type' = POWER_SUPPLY_TYPE_UNKNOWN
  /\ caller' \in Callers
  /\ detected' = 0
  /\ UNCHANGED << cfg, env, regs, dcd_retries, primary_retries >>

\* mutant: the retry budgets are reset before the presence check
GetTypeVbus_ResetFirst ==
  /\ pc = "vbus"
  /\ dcd_retries' = CHG_DCD_MAX_RETRIES
  /\ primary_retries' = CHG_PRI_MAX_RETRIES
  /\ \E valid \in (IF cfg.gpio_build THEN BOOLEAN ELSE { FALSE }),
        level \in BOOLEAN, v \in { 0, 1 } :
       LET m1 == IF valid
                 THEN [Mach EXCEPT !.log = Append(log, EvGpio(level))]
                 ELSE DoRead(Mach, "utmi_bvalid", cfg.utmi_bvalid, v)
           present == IF valid THEN level
                      ELSE Sample(regs, cfg.utmi_bvalid, v)
       IN  /\ Commit(m1)
           /\ IF ~present
              THEN Return(POWER_SUPPLY_TYPE_UNKNOWN) /\ chg_type' = chg_type
              ELSE IF cfg.legacy
              THEN /\ chg_type' = POWER_SUPPLY_TYPE_USB
                   /\ pc' = "out"
                   /\ ret' = ret
              ELSE /\ pc' = "suspend"
                   /\ UNCHANGED << chg_type, ret >>
  /\ UNCHANGED << cfg, ext, op >>

\* mutant: utmi_bvalid is consulted even though the GPIO reads high
GetTypeVbus_AlwaysBvalid ==
  /\ pc = "vbus"
  /\ \E valid \in (IF cfg.gpio_build THEN BOOLEAN ELSE { FALSE }),
        level \in BOOLEAN, v \in { 0, 1 } :
       LET g == IF valid
                THEN [Mach EXCEPT !.log = Append(log, EvGpio(level))]
                ELSE Mach
           m1 == IF valid /\ ~level THEN g
                 ELSE DoRead(g, "utmi_bvalid", cfg.utmi_bvalid, v)
           present == (valid => level) /\ Sample(regs, cfg.utmi_bvalid, v)
       IN  /\ Commit(m1)
           /\ IF ~present
              THEN Return(POWER_SUPPLY_TYPE_UNKNOWN) /\ chg_type' = chg_type
              ELSE IF cfg.legacy
              THEN /\ chg_type' = POWER_SUPPLY_TYPE_USB
                   /\ pc' = "out"
                   /\ ret' = ret
              ELSE /\ pc' = "suspend"
                   /\ UNCHANGED << chg_type, ret >>
  /\ UNCHANGED << cfg, ext, dcd_retries, primary_retries, op >>

\* mutant: the CONFIG_ROCKCHIP_RK3036 shortcut is missing
GetTypeVbus_NoShortcut ==
  /\ pc = "vbus"
  /\ \E valid \in (IF cfg.gpio_build THEN BOOLEAN ELSE { FALSE }),
        level \in BOOLEAN, v \in { 0, 1 } :
       LET m1 == IF valid
                 THEN [Mach EXCEPT !.log = Append(log, EvGpio(level))]
                 ELSE DoRead(Mach, "utmi_bvalid", cfg.utmi_bvalid, v)
           present == IF valid THEN level
                      ELSE Sample(regs, cfg.utmi_bvalid, v)
       IN  /\ Commit(m1)
           /\ IF ~present
              THEN Return(POWER_SUPPLY_TYPE_UNKNOWN) /\ chg_type' = chg_type
              ELSE /\ pc' = "suspend"
                   /\ UNCHANGED << chg_type, ret >>
  /\ UNCHANGED << cfg, ext, dcd_retries, primary_retries, op >>

\* mutant: the CONFIG_ROCKCHIP_RK3036 shortcut returns instead of "goto out"
GetTypeVbus_LegacyReturn ==
  /\ pc = "vbus"
  /\ \E valid \in (IF cfg.gpio_build THEN BOOLEAN ELSE { FALSE }),
        level \in BOOLEAN, v \in { 0, 1 } :
       LET m1 == IF valid
                 THEN [Mach EXCEPT !.log = Append(log, EvGpio(level))]
                 ELSE DoRead(Mach, "utmi_bvalid", cfg.utmi_bvalid, v)
           present == IF valid THEN level
                      ELSE Sample(regs, cfg.utmi_bvalid, v)
       IN  /\ Commit(m1)
           /\ IF ~present
              THEN Return(POWER_SUPPLY_TYPE_UNKNOWN) /\ chg_type' = chg_type
              ELSE IF cfg.legacy
              THEN /\ chg_type' = POWER_SUPPLY_TYPE_USB
                   /\ Return(POWER_SUPPLY_TYPE_USB)
              ELSE /\ pc' = "suspend"
                   /\ UNCHANGED << chg_type, ret >>
  /\ UNCHANGED << cfg, ext, dcd_retries, primary_retries, op >>

\* "Check USB-Vbus status first", then the CONFIG_ROCKCHIP_RK3036 shortcut
GetTypeVbus ==
  /\ pc = "vbus"
  /\ \E valid \in (IF cfg.gpio_build THEN BOOLEAN ELSE { FALSE }),
        level \in BOOLEAN, v \in { 0, 1 } :
       LET m1 == IF valid
                 THEN [Mach EXCEPT !.log = Append(log, EvGpio(level))]
                 ELSE DoRead(Mach, "utmi_bvalid", cfg.utmi_bvalid, v)
           present == IF valid THEN level
                      ELSE Sample(regs, cfg.utmi_bvalid, v)
       IN  /\ Commit(m1)
           /\ IF ~present
              THEN Return(POWER_SUPPLY_TYPE_UNKNOWN) /\ chg_type' = chg_type
              ELSE IF cfg.legacy
              THEN /\ chg_type' = POWER_SUPPLY_TYPE_USB
                   /\ pc' = "out"
                   /\ ret' = ret
              ELSE /\ pc' = "suspend"
                   /\ UNCHANGED << chg_type, ret >>
  /\ UNCHANGED << cfg, ext, dcd_retries, primary_retries, op >>

\* mutant: the budgets keep what the previous run left in them
GetTypeSuspend_NoReset ==
  /\ pc = "suspend"
  /\ LET m1 == DoWrite(Mach, "phy_sus", OtgPort, TRUE)
         m2 == DoWrite(m1, "opmode", Chg.opmode, FALSE)
         m3 == rockchip_chg_enable_dcd(m2, TRUE)
     IN  Commit(m3)
  /\ pc' = "dcd"
  /\ UNCHANGED << cfg, ext, dcd_retries, primary_retries, chg_type, ret, op >>

\* suspend the PHY, non-driving mode, reset the budgets, start DCD
GetTypeSuspend ==
  /\ pc = "suspend"
  /\ LET m1 == DoWrite(Mach, "phy_sus", OtgPort, TRUE)
         m2 == DoWrite(m1, "opmode", Chg.opmode, FALSE)
         m3 == rockchip_chg_enable_dcd(m2, TRUE)
     IN  Commit(m3)
  /\ dcd_retries' = CHG_DCD_MAX_RETRIES
  /\ primary_retries' = CHG_PRI_MAX_RETRIES
  /\ pc' = "dcd"
  /\ UNCHANGED << cfg, ext, chg_type, ret, op >>

\* mutant: the loop breaks on contact only, not on the exhausted budget
GetTypeDcdPoll_NoBudgetBreak ==
  /\ pc = "dcd"
  /\ dcd_retries' = DecU8(dcd_retries)
  /\ IF dcd_retries = 0
     THEN /\ pc' = "primary"
          /\ UNCHANGED << regs, log, slept >>
     ELSE \E v \in { 0, 1 } :
            LET m1 == mdelay(Mach, CHG_DCD_POLL_TIME)
                m2 == DoRead(m1, "dp_det", Chg.dp_det, v)
                is_dcd == Sample(regs, Chg.dp_det, v)
                m3 == rockchip_chg_enable_primary_det(
                        rockchip_chg_enable_dcd(m2, FALSE), TRUE)
            IN  IF is_dcd
                THEN Commit(m3) /\ pc' = "primary"
                ELSE Commit(m2) /\ pc' = "dcd"
  /\ UNCHANGED << cfg, ext, primary_retries, chg_type, ret, op >>

\* mutant: the iteration that sees contact does not consume a retry
GetTypeDcdPoll_FreeSuccess ==
  /\ pc = "dcd"
  /\ IF dcd_retries = 0
     THEN /\ pc' = "primary"
          /\ dcd_retries' = DecU8(dcd_retries)
          /\ UNCHANGED << regs, log, slept >>
     ELSE \E v \in { 0, 1 } :
            LET m1 == mdelay(Mach, CHG_DCD_POLL_TIME)
                m2 == DoRead(m1, "dp_det", Chg.dp_det, v)
                is_dcd == Sample(regs, Chg.dp_det, v)
                m3 == rockchip_chg_enable_primary_det(
                        rockchip_chg_enable_dcd(m2, FALSE), TRUE)
            IN  /\ dcd_retries' = IF is_dcd THEN dcd_retries
                                  ELSE DecU8(dcd_retries)
                /\ IF is_dcd \/ dcd_retries' = 0
                   THEN Commit(m3) /\ pc' = "primary"
                   ELSE Commit(m2) /\ pc' = "dcd"
  /\ UNCHANGED << cfg, ext, primary_retries, chg_type, ret, op >>

\* mutant: on leaving the loop the primary bundle is enabled before the DCD
\* bundle is disabled
GetTypeDcdPoll_PrimaryFirst ==
  /\ pc = "dcd"
  /\ dcd_retries' = DecU8(dcd_retries)
  /\ IF dcd_retries = 0
     THEN /\ pc' = "primary"
          /\ UNCHANGED << regs, log, slept >>
     ELSE \E v \in { 0, 1 } :
            LET m1 == mdelay(Mach, CHG_DCD_POLL_TIME)
                m2 == DoRead(m1, "dp_det", Chg.dp_det, v)
                is_dcd == Sample(regs, Chg.dp_det, v)
                m3 == rockchip_chg_enable_dcd(
                        rockchip_chg_enable_primary_det(m2, TRUE), FALSE)
            IN  IF is_dcd \/ dcd_retries' = 0
                THEN Commit(m3) /\ pc' = "primary"
                ELSE Commit(m2) /\ pc' = "dcd"
  /\ UNCHANGED << cfg, ext, primary_retries, chg_type, ret, op >>

\* one evaluation of "while (rphy->dcd_retries--)" and the loop body
GetTypeDcdPoll ==
  /\ pc = "dcd"
  /\ dcd_retries' = DecU8(dcd_retries)
  /\ IF dcd_retries = 0
     THEN /\ pc' = "primary"
          /\ UNCHANGED << regs, log, slept >>
     ELSE \E v \in { 0, 1 } :
            LET m1 == mdelay(Mach, CHG_DCD_POLL_TIME)
                m2 == DoRead(m1, "dp_det", Chg.dp_det, v)
                is_dcd == Sample(regs, Chg.dp_det, v)
                m3 == rockchip_chg_enable_primary_det(
                        rockchip_chg_enable_dcd(m2, FALSE), TRUE)
            IN  IF is_dcd \/ dcd_retries' = 0
                THEN Commit(m3) /\ pc' = "primary"
                ELSE Commit(m2) /\ pc' = "dcd"
  /\ UNCHANGED << cfg, ext, primary_retries, chg_type, ret, op >>

\* mutant: no floating-charger branch, a failed first read is always retried
GetTypePrimary_NoFloating ==
  /\ pc = "primary"
  /\ \E v \in { 0, 1 } :
       LET m1 == mdelay(Mach, CHG_PRIMARY_DET_TIME)
           m2 == DoRead(m1, "cp_det", Chg.cp_det, v)
           vout == Sample(m1.regs, Chg.cp_det, v)
           m3 == rockchip_chg_enable_primary_det(m2, FALSE)
       IN  IF vout
           THEN /\ Commit(rockchip_chg_enable_secondary_det(m3, TRUE))
                /\ pc' = "secondary"
                /\ chg_type' = chg_type
           ELSE /\ Commit(m3)
                /\ pc' = "retry"
                /\ chg_type' = chg_type
  /\ UNCHANGED << cfg, ext, dcd_retries, primary_retries, ret, op >>

\* mutant: cp_det is read after the primary bundle has been disabled
GetTypePrimary_ReadAfterDisable ==
  /\ pc = "primary"
  /\ \E v \in { 0, 1 } :
       LET m1 == mdelay(Mach, CHG_PRIMARY_DET_TIME)
           m2 == rockchip_chg_enable_primary_det(m1, FALSE)
           m3 == DoRead(m2, "cp_det", Chg.cp_det, v)
           vout == Sample(m2.regs, Chg.cp_det, v)
       IN  IF vout
           THEN /\ Commit(rockchip_chg_enable_secondary_det(m3, TRUE))
                /\ pc' = "secondary"
                /\ chg_type' = chg_type
           ELSE IF dcd_retries = 0
           THEN /\ Commit(m3)
                /\ chg_type' = POWER_SUPPLY_TYPE_USB_FLOATING
                /\ pc' = "out"
           ELSE /\ Commit(m3)
                /\ pc' = "retry"
                /\ chg_type' = chg_type
  /\ UNCHANGED << cfg, ext, dcd_retries, primary_retries, ret, op >>

\* the first primary detection and the branch on vout
GetTypePrimary ==
  /\ pc = "primary"
  /\ \E v \in { 0, 1 } :
       LET m1 == mdelay(Mach, CHG_PRIMARY_DET_TIME)
           m2 == DoRead(m1, "cp_det", Chg.cp_det, v)
           vout == Sample(m1.regs, Chg.cp_det, v)
           m3 == rockchip_chg_enable_primary_det(m2, FALSE)
       IN  IF vout
           THEN /\ Commit(rockchip_chg_enable_secondary_det(m3, TRUE))
                /\ pc' = "secondary"
                /\ chg_type' = chg_type
           ELSE IF dcd_retries = 0
           THEN /\ Commit(m3)
                /\ chg_type' = POWER_SUPPLY_TYPE_USB_FLOATING
                /\ pc' = "out"
           ELSE /\ Commit(m3)
                /\ pc' = "retry"
                /\ chg_type' = chg_type
  /\ UNCHANGED << cfg, ext, dcd_retries, primary_retries, ret, op >>

\* mutant: "while (--rphy->primary_retries)", one retry too few
GetTypePrimaryRetry_PreDecrement ==
  /\ pc = "retry"
  /\ primary_retries' = DecU8(primary_retries)
  /\ IF primary_retries' = 0
     THEN /\ Commit(rockchip_chg_enable_primary_det(Mach, FALSE))
          /\ chg_type' = POWER_SUPPLY_TYPE_USB
          /\ pc' = "out"
     ELSE \E v \in { 0, 1 } :
            LET m1 == rockchip_chg_enable_primary_det(Mach, TRUE)
                m2 == mdelay(m1, CHG_PRIMARY_DET_TIME)
                m3 == DoRead(m2, "cp_det", Chg.cp_det, v)
                vout == Sample(m2.regs, Chg.cp_det, v)
                m4 == rockchip_chg_enable_primary_det(m3, FALSE)
            IN  IF vout
                THEN /\ Commit(rockchip_chg_enable_secondary_det(m4, TRUE))
                     /\ pc' = "secondary"
                     /\ chg_type' = chg_type
                ELSE /\ Commit(m3)
                     /\ pc' = "retry"
                     /\ chg_type' = chg_type
  /\ UNCHANGED << cfg, ext, dcd_retries, ret, op >>

\* rockchip_chg_primary_det_retry: one evaluation of
\* "while (rphy->primary_retries--)" and the loop body, or the loop's exit
GetTypePrimaryRetry ==
  /\ pc = "retry"
  /\ primary_retries' = DecU8(primary_retries)
  /\ IF primary_retries = 0
     THEN /\ Commit(rockchip_chg_enable_primary_det(Mach, FALSE))
          /\ chg_type' = POWER_SUPPLY_TYPE_USB
          /\ pc' = "out"
     ELSE \E v \in { 0, 1 } :
            LET m1 == rockchip_chg_enable_primary_det(Mach, TRUE)
                m2 == mdelay(m1, CHG_PRIMARY_DET_TIME)
                m3 == DoRead(m2, "cp_det", Chg.cp_det, v)
                vout == Sample(m2.regs, Chg.cp_det, v)
                m4 == rockchip_chg_enable_primary_det(m3, FALSE)
            IN  IF vout
                THEN /\ Commit(rockchip_chg_enable_secondary_det(m4, TRUE))
                     /\ pc' = "secondary"
                     /\ chg_type' = chg_type
                ELSE /\ Commit(m3)
                     /\ pc' = "retry"
                     /\ chg_type' = chg_type
  /\ UNCHANGED << cfg, ext, dcd_retries, ret, op >>

\* mutant: the two classifications of the secondary detection are swapped
GetTypeSecondary_Swapped ==
  /\ pc = "secondary"
  /\ \E v \in { 0, 1 } :
       LET m1 == mdelay(Mach, CHG_SECONDARY_DET_TIME)
           m2 == DoRead(m1, "dcp_det", Chg.dcp_det, v)
           vout == Sample(m1.regs, Chg.dcp_det, v)
       IN  /\ Commit(rockchip_chg_enable_secondary_det(m2, FALSE))
           /\ chg_type' = IF vout THEN POWER_SUPPLY_TYPE_USB_CDP
                          ELSE POWER_SUPPLY_TYPE_USB_DCP
  /\ pc' = "out"
  /\ UNCHANGED << cfg, ext, dcd_retries, primary_retries, ret, op >>

\* mutant: dcp_det is read without the settling delay
GetTypeSecondary_NoDelay ==
  /\ pc = "secondary"
  /\ \E v \in { 0, 1 } :
       LET m2 == DoRead(Mach, "dcp_det", Chg.dcp_det, v)
           vout == Sample(regs, Chg.dcp_det, v)
       IN  /\ Commit(rockchip_chg_enable_secondary_det(m2, FALSE))
           /\ chg_type' = IF vout THEN POWER_SUPPLY_TYPE_USB_DCP
                          ELSE POWER_SUPPLY_TYPE_USB_CDP
  /\ pc' = "out"
  /\ UNCHANGED << cfg, ext, dcd_retries, primary_retries, ret, op >>

\* mutant: the secondary bundle is left enabled after the dcp_det read
GetTypeSecondary_LeftOn ==
  /\ pc = "secondary"
  /\ \E v \in { 0, 1 } :
       LET m1 == mdelay(Mach, CHG_SECONDARY_DET_TIME)
           m2 == DoRead(m1, "dcp_det", Chg.dcp_det, v)
           vout == Sample(m1.regs, Chg.dcp_det, v)
       IN  /\ Commit(m2)
           /\ chg_type' = IF vout THEN POWER_SUPPLY_TYPE_USB_DCP
                          ELSE POWER_SUPPLY_TYPE_USB_CDP
  /\ pc' = "out"
  /\ UNCHANGED << cfg, ext, dcd_retries, primary_retries, ret, op >>

\* secondary detection and classification DCP / CDP
GetTypeSecondary ==
  /\ pc = "secondary"
  /\ \E v \in { 0, 1 } :
       LET m1 == mdelay(Mach, CHG_SECONDARY_DET_TIME)
           m2 == DoRead(m1, "dcp_det", Chg.dcp_det, v)
           vout == Sample(m1.regs, Chg.dcp_det, v)
       IN  /\ Commit(rockchip_chg_enable_secondary_det(m2, FALSE))
           /\ chg_type' = IF vout THEN POWER_SUPPLY_TYPE_USB_DCP
                          ELSE POWER_SUPPLY_TYPE_USB_CDP
  /\ pc' = "out"
  /\ UNCHANGED << cfg, ext, dcd_retries, primary_retries, ret, op >>

\* mutant: the cleanup restores opmode but leaves the port suspended
GetTypeOut_NoResume ==
  /\ pc = "out"
  /\ Commit(DoWrite(Mach, "opmode", Chg.opmode, TRUE))
  /\ Return(chg_type)
  /\ UNCHANGED << cfg, ext, dcd_retries, primary_retries, chg_type, op >>

\* "out:": resume the PHY, normal mode, return chg_type
\* mutant: the cleanup resumes the port first and restores opmode last
GetTypeOut_ResumeFirst ==
  /\ pc = "out"
  /\ LET m1 == DoWrite(Mach, "phy_sus", OtgPort, FALSE)
         m2 == DoWrite(m1, "opmode", Chg.opmode, TRUE)
     IN  Commit(m2)
  /\ Return(chg_type)
  /\ UNCHANGED << cfg, ext, dcd_retries, primary_retries, chg_type, op >>

\* out: restore opmode, resume the port, return the type
GetTypeOut ==
  /\ pc = "out"
  /\ LET m1 == DoWrite(Mach, "opmode", Chg.opmode, TRUE)
         m2 == DoWrite(m1, "phy_sus", OtgPort, FALSE)
     IN  Commit(m2)
  /\ Return(chg_type)
  /\ UNCHANGED << cfg, ext, dcd_retries, primary_retries, chg_type, op >>

(***************************************************************************)
(* rockchip_u2phy_vbus_detect                                              *)
(***************************************************************************)
\* mutant: any charger that is not Unknown counts as a data-capable port
rockchip_u2phy_vbus_detect_AnyCharger ==
  /\ pc = "done"
  /\ caller = "vbus_detect"
  /\ detected' = IF ret # POWER_SUPPLY_TYPE_UNKNOWN THEN 1 ELSE 0
  /\ pc' = "detected"
  /\ UNCHANGED << cfg, regs, dcd_retries, primary_retries, chg_type, ret, op,
                  log, slept, bus, caller, vbus_supply, probe_vars, other,
                  usbgrf_base >>

\* the call of rockchip_chg_get_type has returned into
\* rockchip_u2phy_vbus_detect, which maps its value to 1 or 0
rockchip_u2phy_vbus_detect ==
  /\ pc = "done"
  /\ caller = "vbus_detect"
  /\ detected' = IF ret = POWER_SUPPLY_TYPE_USB
                    \/ ret = POWER_SUPPLY_TYPE_USB_CDP THEN 1 ELSE 0
  /\ pc' = "detected"
  /\ UNCHANGED << cfg, regs, dcd_retries, primary_retries, chg_type, ret, op,
                  log, slept, bus, caller, vbus_supply, probe_vars, other,
                  usbgrf_base >>

(***************************************************************************)
(* rockchip_usb2phy_init / rockchip_usb2phy_exit                           *)
(***************************************************************************)
\* phy->id values a caller may pass
PhyIds == { USB2PHY_PORT_OTG, USB2PHY_PORT_HOST, USB2PHY_NUM_PORTS }

PortName(id) == IF id = USB2PHY_PORT_OTG THEN "phy_sus" ELSE "host_phy_sus"

\* mutant: the port is left suspended
rockchip_usb2phy_init_NoResume(id) ==
  /\ Idle
  /\ op' = "init"
  /\ pc' = "idle"
  /\ IF id \in { USB2PHY_PORT_OTG, USB2PHY_PORT_HOST }
     THEN /\ Commit(udelay(DoWrite([Mach EXCEPT !.log = << >>, !.slept = 0],
                                   PortName(id), cfg.phy_sus[id + 1], TRUE),
                           2000))
          /\ ret' = 0
     ELSE /\ ret' = -EINVAL
          /\ log' = << >>
          /\ slept' = 0
          /\ regs' = regs
  /\ chg_type' = POWER_SUPPLY_TYPE_UNKNOWN
  /\ caller' = "direct"
  /\ detected' = 0
  /\ UNCHANGED << cfg, env, dcd_retries, primary_retries >>

\* clear the port's suspend, wait for utmi_clk to become stable
rockchip_usb2phy_init(id) ==
  /\ Idle
  /\ op' = "init"
  /\ pc' = "idle"
  /\ IF id \in { USB2PHY_PORT_OTG, USB2PHY_PORT_HOST }
     THEN /\ Commit(udelay(DoWrite([Mach EXCEPT !.log = << >>, !.slept = 0],
                                   PortName(id), cfg.phy_sus[id + 1], FALSE),
                           2000))
          /\ ret' = 0
     ELSE /\ ret' = -EINVAL
          /\ log' = << >>
          /\ slept' = 0
          /\ regs' = regs
  /\ chg_type' = POWER_SUPPLY_TYPE_UNKNOWN
  /\ caller' = "direct"
  /\ detected' = 0
  /\ UNCHANGED << cfg, env, dcd_retries, primary_retries >>

rockchip_usb2phy_exit(id) ==
  /\ Idle
  /\ op' = "exit"
  /\ pc' = "idle"
  /\ IF id \in { USB2PHY_PORT_OTG, USB2PHY_PORT_HOST }
     THEN /\ Commit(DoWrite([Mach EXCEPT !.log = << >>, !.slept = 0],
                            PortName(id), cfg.phy_sus[id + 1], TRUE))
          /\ ret' = 0
     ELSE /\ ret' = -EINVAL
          /\ log' = << >>
          /\ slept' = 0
          /\ regs' = regs
  /\ chg_type' = POWER_SUPPLY_TYPE_UNKNOWN
  /\ caller' = "direct"
  /\ detected' = 0
  /\ UNCHANGED << cfg, env, dcd_retries, primary_retries >>

(***************************************************************************)
(* otg_phy_init                                                            *)
(***************************************************************************)
\* mutant: the pulse is left at its first half, the port suspended
OtgPulse_NoRelease(m) ==
  udelay(DoWrite(IF cfg.clkout_ctl.disable # 0
                 THEN DoWrite(m, "clkout_ctl", cfg.clkout_ctl, TRUE)
                 ELSE m,
                 "phy_sus", OtgPort, TRUE),
         20)

\* mutant: the output clock is switched whatever the entry says
OtgPulse_AlwaysClkout(m) ==
  mdelay(DoWrite(udelay(DoWrite(DoWrite(m, "clkout_ctl", cfg.clkout_ctl, TRUE),
                                "phy_sus", OtgPort, TRUE),
                        20),
                 "phy_sus", OtgPort, FALSE),
         2)

\* what otg_phy_init does once it holds the device: keep the PHY's output
\* clock on where the entry has a clkout_ctl, then pulse the OTG suspend
OtgPulse(m) ==
  mdelay(DoWrite(udelay(DoWrite(IF cfg.clkout_ctl.disable # 0
                                THEN DoWrite(m, "clkout_ctl",
                                             cfg.clkout_ctl, TRUE)
                                ELSE m,
                                "phy_sus", OtgPort, TRUE),
                        20),
                 "phy_sus", OtgPort, FALSE),
         2)

\* a lookup that fails with anything but -ENODEV leaves udev uninitialised
\* and goes on with it, as in rockchip_chg_get_type
otg_phy_init ==
  /\ Idle
  /\ op' = "otg_phy_init"
  /\ \E r1 \in LookupRets, r2 \in LookupRets :
       IF r1 = 0 \/ (r1 = -ENODEV /\ r2 = 0)
       THEN /\ pc' = "idle"
            /\ Commit(OtgPulse([Mach EXCEPT !.log = << >>, !.slept = 0]))
       ELSE IF r1 = -ENODEV
       THEN /\ pc' = "idle"
            /\ log' = << >>
            /\ slept' = 0
            /\ regs' = regs
       ELSE \/ /\ pc' = "fault"
               /\ log' = << >>
               /\ slept' = 0
               /\ regs' = regs
            \/ /\ pc' = "idle"
               /\ Commit(OtgPulse([Mach EXCEPT !.log = << >>, !.slept = 0]))
  /\ ret' = 0
  /\ chg_type' = POWER_SUPPLY_TYPE_UNKNOWN
  /\ caller' = "direct"
  /\ detected' = 0
  /\ UNCHANGED << cfg, env, dcd_retries, primary_retries >>

(***************************************************************************)
(* rockchip_usb2phy_of_xlate, rockchip_usb2phy_power_on / _power_off       *)
(***************************************************************************)
DevNames == { "host-port", "otg-port", "usb-port" }

\* values regulator_set_enable returns
RegulatorRets == { 0, -ENOSYS }

\* of_xlate binds the port's supply: "phy-supply", and for the OTG port
\* "vbus-supply" when there is no "phy-supply"
rockchip_usb2phy_of_xlate(dev_name) ==
  /\ Idle
  /\ op' = "of_xlate"
  /\ pc' = "idle"
  /\ \E phy_supply \in BOOLEAN, vbus \in BOOLEAN :
       IF dev_name = "host-port"
       THEN /\ vbus_supply' =
                 [vbus_supply EXCEPT ![USB2PHY_PORT_HOST] = phy_supply]
            /\ ret' = 0
       ELSE IF dev_name = "otg-port"
       THEN /\ vbus_supply' =
                 [vbus_supply EXCEPT ![USB2PHY_PORT_OTG] = phy_supply \/ vbus]
            /\ ret' = 0
       ELSE /\ vbus_supply' = vbus_supply
            /\ ret' = -EINVAL
  /\ log' = << >>
  /\ slept' = 0
  /\ chg_type' = POWER_SUPPLY_TYPE_UNKNOWN
  /\ caller' = "direct"
  /\ detected' = 0
  /\ UNCHANGED << cfg, regs, dcd_retries, primary_retries, bus, probe_vars,
                  other, usbgrf_base >>

\* mutant: the error of regulator_set_enable is dropped
SetPower_DropError(id, en) ==
  /\ Idle
  /\ slept' = 0
  /\ chg_type' = POWER_SUPPLY_TYPE_UNKNOWN
  /\ caller' = "direct"
  /\ detected' = 0
  /\ \E vbus \in (IF id \in Ports THEN { vbus_supply[id] } ELSE BOOLEAN) :
       IF vbus
       THEN \E e \in RegulatorRets :
              /\ log' = << EvRegulator(id, en, e) >>
              /\ ret' = 0
              /\ pc' \in (IF id \in Ports THEN { "idle" }
                          ELSE { "idle", "fault" })
       ELSE /\ log' = << >>
            /\ ret' = 0
            /\ pc' = "idle"
  /\ UNCHANGED << cfg, env, regs, dcd_retries, primary_retries >>

\* power_on (en = TRUE) and power_off (en = FALSE) differ in the argument of
\* regulator_set_enable only.  rphy->vbus_supply[phy->id] is read without a
\* check of phy->id: an id outside the array reads the memory behind it,
\* which holds a null pointer, or something regulator_set_enable is then
\* called on with any outcome, a fault included.
SetPower(id, en) ==
  /\ Idle
  /\ slept' = 0
  /\ chg_type' = POWER_SUPPLY_TYPE_UNKNOWN
  /\ caller' = "direct"
  /\ detected' = 0
  /\ \E vbus \in (IF id \in Ports THEN { vbus_supply[id] } ELSE BOOLEAN) :
       IF vbus
       THEN \E e \in RegulatorRets :
              /\ log' = << EvRegulator(id, en, e) >>
              /\ ret' = e
              /\ pc' \in (IF id \in Ports THEN { "idle" }
                          ELSE { "idle", "fault" })
       ELSE /\ log' = << >>
            /\ ret' = 0
            /\ pc' = "idle"
  /\ UNCHANGED << cfg, env, regs, dcd_retries, primary_retries >>

rockchip_usb2phy_power_on(id) ==
  /\ SetPower(id, TRUE)
  /\ op' = "power_on"

rockchip_usb2phy_power_off(id) ==
  /\ SetPower(id, FALSE)
  /\ op' = "power_off"

\* the port operations of struct phy_ops, after of_xlate
NextLifecycle ==
  \/ \E n \in DevNames : rockchip_usb2phy_of_xlate(n)
  \/ \E id \in PhyIds : rockchip_usb2phy_init(id)
  \/ \E id \in PhyIds : rockchip_usb2phy_exit(id)
  \/ \E id \in PhyIds : rockchip_usb2phy_power_on(id)
  \/ \E id \in PhyIds : rockchip_usb2phy_power_off(id)

SpecLifecycle == Init /\ [][NextLifecycle]_vars

(***************************************************************************)
(* rockchip_usb2phy_probe: the table lookup                                *)
(***************************************************************************)
\* elements of memory behind a table that the lookup may be seen to examine
MaxOverrun == 2

\* a variant table: the .reg members of its declared elements (the
\* terminating all-zero element included, where the table has one) and the
\* number of entries among them
Table(n, rs, k) == [name |-> n, regs |-> rs, entries |-> k]

rk1808_phy_cfgs == Table("rk1808", << U32(0, \h0100), Zero >>, 1)
rk322x_phy_cfgs == Table("rk322x", << U32(0, \h0760), U32(0, \h0800), Zero >>, 2)
rk3399_phy_cfgs == Table("rk3399", << U32(0, \he450), U32(0, \he460), Zero >>, 2)
\* no terminating element
rk3506_phy_cfgs == Table("rk3506", << U32(\hff2b, 0) >>, 1)
\* no terminating element
rk3528_phy_cfgs == Table("rk3528", << U32(\hffdf, 0) >>, 1)
rk3576_phy_cfgs == Table("rk3576", << Zero, U32(0, \h2000), Zero >>, 2)
rk3588_phy_cfgs ==
  Table("rk3588",
        << Zero, U32(0, \h4000), U32(0, \h8000), U32(0, \hc000), Zero >>, 4)

VariantTables ==
  { rk1808_phy_cfgs, rk322x_phy_cfgs, rk3399_phy_cfgs, rk3506_phy_cfgs,
    rk3528_phy_cfgs, rk3576_phy_cfgs, rk3588_phy_cfgs }

\* "reg" identifiers a device tree node may carry
DtRegs ==
  { Zero, U32(0, \h0100), U32(0, \h0800), U32(0, \h2000), U32(0, \hc000),
    U32(0, \he460), U32(\hff2b, 0), U32(\hffdf, 0), U32(\hff74, 0) }

\* what the memory behind a table may hold where a .reg member would be
BehindVals == { Zero, U32(\hffdf, 0), U32(\hff74, 0) }

RECURSIVE SeqsOf(_, _)
SeqsOf(S, n) ==
  IF n = 0 THEN { << >> }
  ELSE { Append(q, x) : q \in SeqsOf(S, n - 1), x \in S }

\* phy_cfgs[i].reg; an index past the declared elements reads the memory
\* behind the table
RegAt(t, i) ==
  IF i < Len(t.regs) THEN t.regs[i + 1] ELSE t.behind[i - Len(t.regs) + 1]

\* elements past the table's last declared one among indices 0 .. i
Past(t, i) == IF i < Len(t.regs) THEN 0 ELSE i - Len(t.regs) + 1

\* probe enters the lookup: driver data and "reg" are read, rphy->phy_cfg
\* is NULL in the zeroed private data
InitProbe ==
  /\ cfg = rk1808_cfg
  /\ \E w \in InitWords : regs = [o \in CfgOffsets(cfg) |-> w]
  /\ dcd_retries = 0
  /\ primary_retries = 0
  /\ pc = "idle"
  /\ chg_type = POWER_SUPPLY_TYPE_UNKNOWN
  /\ ret = 0
  /\ op = "probe"
  /\ log = << >>
  /\ slept = 0
  /\ bus = "ok"
  /\ caller = "direct"
  /\ detected = 0
  /\ vbus_supply = [p \in Ports |-> FALSE]
  /\ other = NoCall
  /\ usbgrf_base = NULL
  /\ \E t \in VariantTables, b \in SeqsOf(BehindVals, MaxOverrun) :
       phy_cfgs = [name |-> t.name, regs |-> t.regs, entries |-> t.entries,
                   behind |-> IF t.regs[Len(t.regs)] = Zero
                              THEN [i \in 1 .. MaxOverrun |-> Zero] ELSE b]
  /\ dt_reg \in DtRegs
  /\ index = 0
  /\ matched = -1
  /\ overrun = 0
  /\ probe_pc = "loop"

\* one iteration of the do-while loop and, when the loop is left, the
\* "if (!rphy->phy_cfg)" test that ends the lookup
ProbeStep ==
  /\ probe_pc = "loop"
  /\ index + 1 < Len(phy_cfgs.regs) + MaxOverrun
  /\ IF RegAt(phy_cfgs, index) = dt_reg
     THEN /\ matched' = index
          /\ index' = index
          /\ overrun' = Past(phy_cfgs, index)
          /\ probe_pc' = "done"
          /\ ret' = 0
     ELSE /\ index' = index + 1
          /\ matched' = matched
          /\ overrun' = Past(phy_cfgs, index + 1)
          /\ IF RegAt(phy_cfgs, index + 1) # Zero
             THEN probe_pc' = "loop" /\ ret' = ret
             ELSE probe_pc' = "done" /\ ret' = -EINVAL
  /\ UNCHANGED << cfg, regs, dcd_retries, primary_retries, pc, chg_type, op,
                  log, slept, bus, caller, detected, vbus_supply, phy_cfgs,
                  dt_reg, other, usbgrf_base >>

SpecProbe == InitProbe /\ [][ProbeStep]_vars

Next ==
  \/ GetTypeLookup
  \/ GetTypeVbus
  \/ GetTypeSuspend
  \/ GetTypeDcdPoll
  \/ GetTypePrimary
  \/ GetTypePrimaryRetry
  \/ GetTypeSecondary
  \/ GetTypeOut
  \/ rockchip_u2phy_vbus_detect
  \/ \E id \in PhyIds : rockchip_usb2phy_init(id)
  \/ \E id \in PhyIds : rockchip_usb2phy_exit(id)

\* the steps of a call in progress
GetTypeRun ==
  \/ GetTypeVbus
  \/ GetTypeSuspend
  \/ GetTypeDcdPoll
  \/ GetTypePrimary
  \/ GetTypePrimaryRetry
  \/ GetTypeSecondary
  \/ GetTypeOut

Spec == Init /\ [][Next]_vars

\* the register users of one PHY, on a node with or without a USB GRF
InitBank ==
  /\ usbgrf_base \in Banks
  /\ InitCall

NextBank ==
  \/ GetTypeLookup
  \/ GetTypeRun
  \/ \E id \in PhyIds : rockchip_usb2phy_init(id)
  \/ \E id \in PhyIds : rockchip_usb2phy_exit(id)
  \/ otg_phy_init

SpecBank == InitBank /\ [][NextBank]_vars

\* the register space becomes unreachable and stays so
BusFail ==
  /\ bus = "ok"
  /\ bus' = "down"
  /\ UNCHANGED << cfg, regs, dcd_retries, primary_retries, pc, chg_type, ret,
                  op, log, slept, caller, detected, vbus_supply, probe_vars, other,
                  usbgrf_base >>

\* detection runs, called directly or through rockchip_u2phy_vbus_detect
NextFault ==
  \/ GetTypeLookup
  \/ GetTypeRun
  \/ rockchip_u2phy_vbus_detect
  \/ BusFail

\* the driver on a register space that may fail at any moment
SpecFault == Init /\ [][NextFault]_vars

\* a call in progress is executed to its end: the caller blocks in it and
\* nothing preempts it
FairSpec == Spec /\ WF_vars(GetTypeRun)

(***************************************************************************)
(* Two calls of rockchip_chg_get_type on one rphy                          *)
(***************************************************************************)
\* how often one call is resumed with a budget changed under it
MaxDisturb == 1
\* accesses and delays after which a call is followed no further (a call on
\* its own makes 43 at most; one resumed with primary_retries at 255 makes
\* more than a thousand)
MaxLog == 48

\* the places at which a call goes on to read a retry budget
ReadsBudget == { "dcd", "primary", "retry" }

\* entry put into the log of a call that is resumed after the other call has
\* changed a budget it was going to read
EvResume ==
  [op |-> "resume", fld |-> "", en |-> TRUE, offset |-> 0, val |-> {},
   err |-> 0, rv |-> 0, base |-> NULL]

\* a call with these locals is between its entry and its return
InCall(p, c) == ~(p \in { "idle", "detected" } \/ (p = "done" /\ c = "direct"))

\* There is one thread of control: a second call can only begin while the
\* first is set aside somewhere between two of its statements, and the first
\* goes on when the second has returned.  Locals and place are swapped; rphy
\* (dcd_retries, primary_retries) and the registers are the same for both.
\* Nothing is kept of a call that has returned.
Reenter ==
  /\ pc # "fault"
  /\ other.pc # "fault"
  /\ InCall(pc, caller) # InCall(other.pc, other.caller)
  /\ InCall(pc, caller) =>
       Len(SelectSeq(log, LAMBDA e : e = EvResume)) < MaxDisturb
  /\ other' = IF InCall(pc, caller)
              THEN [pc |-> pc, chg_type |-> chg_type, ret |-> ret, op |-> op,
                    log |-> log, slept |-> slept, caller |-> caller,
                    detected |-> detected, dcd |-> dcd_retries,
                    pri |-> primary_retries]
              ELSE NoCall
  /\ pc' = other.pc
  /\ chg_type' = other.chg_type
  /\ ret' = other.ret
  /\ op' = other.op
  /\ slept' = other.slept
  /\ caller' = other.caller
  /\ detected' = other.detected
  /\ log' = IF /\ other.pc \in ReadsBudget
               /\ << other.dcd, other.pri >> # << dcd_retries, primary_retries >>
            THEN Append(other.log, EvResume)
            ELSE other.log
  /\ UNCHANGED << cfg, regs, dcd_retries, primary_retries, bus, vbus_supply,
                  probe_vars, usbgrf_base >>

InitReentrant ==
  /\ Init
  /\ cfg = rk1808_cfg
  /\ regs = [o \in CfgOffsets(cfg) |-> {}]

NextReentrant ==
  /\ Len(log) < MaxLog
  /\ \/ GetTypeLookup /\ caller' = "direct"
     \/ GetTypeRun
     \/ Reenter

\* direct calls of rockchip_chg_get_type, the second nested in the first
SpecReentrant == InitReentrant /\ [][NextReentrant]_vars

(***************************************************************************)
(* The accessors on their own: up to MaxWrites property_enable calls on    *)
(* the fields of the bound table entry.                                    *)
(***************************************************************************)
MaxWrites == 2

FieldNames == { "phy_sus", "host_phy_sus", "utmi_bvalid" } \cup ChgFieldNames

\* the descriptor a field name denotes in table entry c
FieldOf(c, f) ==
  IF f = "phy_sus" THEN c.phy_sus[USB2PHY_PORT_OTG + 1]
  ELSE IF f = "host_phy_sus" THEN c.phy_sus[USB2PHY_PORT_HOST + 1]
  ELSE IF f = "utmi_bvalid" THEN c.utmi_bvalid
  ELSE c.chg_det[f]

AccessorWrite(f, en) ==
  /\ op \in { "none", "property_enable", "property_enabled" }
  /\ Len(log) < MaxWrites
  /\ op' = "property_enable"
  /\ Commit(DoWrite(Mach, f, FieldOf(cfg, f), en))
  /\ UNCHANGED << cfg, ext, dcd_retries, primary_retries, pc, chg_type, ret >>

\* property_enabled(base, reg) on the register as it stands
AccessorRead(f) ==
  /\ op \in { "none", "property_enable", "property_enabled" }
  /\ Len(log) < MaxWrites
  /\ op' = "property_enabled"
  /\ log' = Append(log, EvRead(f, FieldOf(cfg, f),
                               property_enabled(regs, FieldOf(cfg, f))))
  /\ UNCHANGED << cfg, ext, regs, slept, dcd_retries, primary_retries, pc,
                  chg_type, ret >>

AccessorNext ==
  \/ \E f \in FieldNames, en \in BOOLEAN : AccessorWrite(f, en)
  \/ \E f \in FieldNames : AccessorRead(f)

SpecAccessor == Init /\ [][AccessorNext]_vars

(***************************************************************************)
(* Observations on the log of the current call                             *)
(***************************************************************************)
IsRead(e, f) == e.op = "read" /\ e.fld = f
IsWrite(e, f, en) == e.op = "write" /\ e.fld = f /\ e.en = en

ReadsOf(f) == SelectSeq(log, LAMBDA e : IsRead(e, f))
NReads(f) == Len(ReadsOf(f))
NWrites == Len(SelectSeq(log, LAMBDA e : e.op = "write"))
NRegReads == Len(SelectSeq(log, LAMBDA e : e.op = "read"))

\* a rockchip_chg_get_type call has returned (to rockchip_u2phy_vbus_detect,
\* which may have returned in turn)
Returned == pc \in { "done", "detected" }
\* ... with a classification made after the presence check passed
Classified ==
  /\ Returned
  /\ ret \in Types \ { POWER_SUPPLY_TYPE_UNKNOWN }

\* the bits two descriptors share (empty when they are in different registers)
Common(a, b) ==
  IF a.offset = b.offset
  THEN BitAnd(GENMASK(a.bitend, a.bitstart), GENMASK(b.bitend, b.bitstart))
  ELSE {}

\* encoding va of field a and encoding vb of field b agree on the shared bits
Agree(a, va, b, vb) ==
  BitAnd(Shl(Bits(va), a.bitstart), Common(a, b)) =
    BitAnd(Shl(Bits(vb), b.bitstart), Common(a, b))

(***************************************************************************)
(* C1: cleanup on return                                                   *)
(***************************************************************************)
\* C1 as stated: after any rockchip_chg_get_type call, whichever value it
\* returned and whatever the registers held at entry, property_enabled of the
\* OTG phy_sus field is false and property_enabled of opmode is true.
C1_CleanupOnEveryReturn ==
  (Returned /\ ret \in Types) =>
    /\ ~property_enabled(regs, OtgPort)
    /\ property_enabled(regs, Chg.opmode)

\* C1 amended: after a call that passed the presence check (SDP, DCP, CDP or
\* FloatingDCP) the last two writes are opmode enabled, then OTG phy_sus
\* disabled.  The phy_sus bits then hold the disable encoding, so phy_sus reads
\* false exactly when its two encodings differ, and opmode reads true exactly
\* when phy_sus.disable agrees with opmode.enable on the bits the two fields
\* share (always, when they share none).  A call that returns Unknown or a
\* lookup error has written no register.
C1_CleanupAfterPresence ==
  /\ Classified =>
       /\ Len(log) >= 2
       /\ IsWrite(log[Len(log) - 1], "opmode", TRUE)
       /\ IsWrite(log[Len(log)], "phy_sus", FALSE)
       /\ property_enabled(regs, OtgPort) = (OtgPort.enable = OtgPort.disable)
       /\ property_enabled(regs, Chg.opmode) =
            Agree(OtgPort, OtgPort.disable, Chg.opmode, Chg.opmode.enable)
  /\ (Returned /\ ~Classified) => NWrites = 0

\* C1 witness: a classified call on a variant whose opmode and phy_sus are in
\* different registers, leaving suspend cleared and opmode enabled
C1_Witness ==
  /\ Classified
  /\ Chg.opmode # Absent
  /\ Common(OtgPort, Chg.opmode) = {}
  /\ ret = POWER_SUPPLY_TYPE_USB_CDP
  /\ ~property_enabled(regs, OtgPort)
  /\ property_enabled(regs, Chg.opmode)

(***************************************************************************)
(* C2: secondary detection after a successful primary detection            *)
(***************************************************************************)
\* positions of the log holding a cp_det read that returned true
CpTrueAt == { i \in 1 .. Len(log) : IsRead(log[i], "cp_det") /\ log[i].en }
DcpAt == { i \in 1 .. Len(log) : IsRead(log[i], "dcp_det") }

\* C2: in a returned call, a cp_det read that returned true (first read or a
\* retry, DCD budget exhausted or not) is the last cp_det read; after it the
\* Secondary Detect bundle (vdm_src_en, idp_sink_en) is enabled, dcp_det is
\* read exactly once, and the result is DCP if that read is true, else CDP.
C2_SecondaryAfterPrimary ==
  (Returned /\ CpTrueAt # {}) =>
    \E i \in CpTrueAt, d \in DcpAt :
      /\ CpTrueAt = { i }
      /\ DcpAt = { d }
      /\ i < d
      /\ \A j \in (i + 1) .. Len(log) : ~IsRead(log[j], "cp_det")
      /\ \E a, b \in (i + 1) .. (d - 1) :
           /\ a < b
           /\ IsWrite(log[a], "vdm_src_en", TRUE)
           /\ IsWrite(log[b], "idp_sink_en", TRUE)
      /\ ret = IF log[d].en THEN POWER_SUPPLY_TYPE_USB_DCP
               ELSE POWER_SUPPLY_TYPE_USB_CDP

\* C2 witness: primary detection succeeded on retry #2, dcp_det read false
C2_Witness ==
  /\ Returned
  /\ NReads("cp_det") = 3
  /\ CpTrueAt # {}
  /\ ret = POWER_SUPPLY_TYPE_USB_CDP

(***************************************************************************)
(* C3: DCD budget exhausted and no primary voltage                         *)
(***************************************************************************)
NoneTrue(rs) == \A i \in 1 .. Len(rs) : ~rs[i].en

\* C3: if no dp_det poll of the call was asserted and the cp_det read after
\* the DCD loop was false, the call returns FloatingDCP after exactly 6 dp_det
\* reads, exactly 1 cp_det read, no primary retry and no dcp_det read.
C3_FloatingOnDcdTimeout ==
  (Returned /\ NReads("cp_det") >= 1 /\ NoneTrue(ReadsOf("dp_det"))
     /\ ~ReadsOf("cp_det")[1].en) =>
    /\ ret = POWER_SUPPLY_TYPE_USB_FLOATING
    /\ NReads("dp_det") = CHG_DCD_MAX_RETRIES
    /\ NReads("cp_det") = 1
    /\ NReads("dcp_det") = 0
    /\ primary_retries = CHG_PRI_MAX_RETRIES

\* C3 witness: a call that returned FloatingDCP after six unasserted polls
C3_Witness ==
  /\ Returned
  /\ ret = POWER_SUPPLY_TYPE_USB_FLOATING
  /\ NReads("dp_det") = 6
  /\ NoneTrue(ReadsOf("dp_det"))
  /\ slept = 640000

(***************************************************************************)
(* C4: contact detected, no primary voltage on three attempts              *)
(***************************************************************************)
\* C4: if dp_det was asserted on poll k <= 5 (the poll that ends the loop) and
\* every cp_det read of the call was false, the call returns SDP after
\* exactly 3 cp_det reads and no dcp_det read.
C4_SdpAfterThreePrimary ==
  (Returned /\ NReads("dp_det") \in 1 .. 5 /\ ~NoneTrue(ReadsOf("dp_det"))
     /\ NReads("cp_det") >= 1 /\ NoneTrue(ReadsOf("cp_det"))) =>
    /\ ret = POWER_SUPPLY_TYPE_USB
    /\ NReads("cp_det") = 1 + CHG_PRI_MAX_RETRIES
    /\ NReads("dcp_det") = 0

\* C4 witness: dp_det asserted on poll 3, three false cp_det reads, SDP
C4_Witness ==
  /\ Returned
  /\ ret = POWER_SUPPLY_TYPE_USB
  /\ NReads("dp_det") = 3
  /\ ReadsOf("dp_det")[3].en
  /\ NReads("cp_det") = 3

(***************************************************************************)
(* C5: presence check fails on utmi_bvalid                                 *)
(***************************************************************************)
\* C5: with no VBUS GPIO bound, a call whose utmi_bvalid read is false returns
\* Unknown after that single register read: from the call's entry to its
\* return dcd_retries, primary_retries and the registers are unchanged, nothing
\* is slept and nothing is written.
C5_UnknownWithoutSideEffects ==
  [][ /\ (pc' = "vbus" =>
            /\ dcd_retries' = dcd_retries
            /\ primary_retries' = primary_retries
            /\ regs' = regs
            /\ slept' = 0
            /\ log' = << >>)
      /\ (pc = "vbus" /\ log' # << >> /\ IsRead(log'[1], "utmi_bvalid")
            /\ ~log'[1].en) =>
            /\ pc' = "done"
            /\ ret' = POWER_SUPPLY_TYPE_UNKNOWN
            /\ dcd_retries' = dcd_retries
            /\ primary_retries' = primary_retries
            /\ regs' = regs
            /\ slept' = 0
            /\ Len(log') = 1 ]_vars

\* C5 witness: Unknown returned on a false utmi_bvalid while the counters
\* still hold what an earlier SDP run left in them
C5_Witness ==
  /\ Returned
  /\ ret = POWER_SUPPLY_TYPE_UNKNOWN
  /\ Len(log) = 1
  /\ IsRead(log[1], "utmi_bvalid")
  /\ ~log[1].en
  /\ dcd_retries \in 1 .. 5
  /\ primary_retries = 255

(***************************************************************************)
(* C6: presence check on the VBUS GPIO                                     *)
(***************************************************************************)
\* C6: when the VBUS GPIO is valid its level alone gates entry: low returns
\* Unknown with no register read and no register write; high goes on to stage
\* 1 (first access: phy_sus enabled); utmi_bvalid is never read in such a call.
C6_GpioGatesEntry ==
  (op = "chg_get_type" /\ log # << >> /\ log[1].op = "gpio") =>
    /\ NReads("utmi_bvalid") = 0
    /\ ~log[1].en =>
         /\ Returned
         /\ ret = POWER_SUPPLY_TYPE_UNKNOWN
         /\ Len(log) = 1
    /\ log[1].en =>
         IF Len(log) = 1 THEN pc = "suspend"
         ELSE IsWrite(log[2], "phy_sus", TRUE)

\* C6 witness: GPIO high, detection ran to a classification
C6_Witness ==
  /\ Returned
  /\ log # << >>
  /\ log[1].op = "gpio"
  /\ log[1].en
  /\ ret = POWER_SUPPLY_TYPE_USB_DCP

(***************************************************************************)
(* C7: values returned                                                     *)
(***************************************************************************)
\* C7 as stated: every path of rockchip_chg_get_type, the failed device
\* lookup included, returns one of the five power_supply_type values.
C7_AlwaysChargerType == Returned => ret \in Types

\* C7 amended: a call that got past the device lookup (it reached the
\* presence check) returns one of the five power_supply_type values; a call
\* whose first lookup reports -ENODEV and whose second lookup fails returns
\* that lookup's negative error code, having accessed nothing.
C7_TypeOrLookupError ==
  Returned =>
    IF log = << >> THEN ret \in LookupRets \ { 0 } ELSE ret \in Types

\* C7 witness: the call returned the error of the failed second lookup
C7_Witness ==
  /\ Returned
  /\ log = << >>
  /\ ret = -EINVAL

(***************************************************************************)
(* C8: termination and resource bounds                                     *)
(***************************************************************************)
\* C8: every call that reaches the presence check returns, whatever the
\* dp_det, cp_det and dcp_det reads yield, after at most 6 dp_det reads, 3
\* cp_det reads and 1 dcp_det read, having slept at most 680 ms.
C8_TerminatesWithinBounds ==
  /\ [](op = "chg_get_type" =>
          /\ NReads("dp_det") <= CHG_DCD_MAX_RETRIES
          /\ NReads("cp_det") <= 1 + CHG_PRI_MAX_RETRIES
          /\ NReads("dcp_det") <= 1
          /\ slept <= 680 * 1000)
  /\ (pc = "vbus") ~> Returned

\* C8 witness: the longest run: six polls, primary, secondary, 680 ms
C8_Witness ==
  /\ Returned
  /\ NReads("dp_det") = 6
  /\ NReads("dcp_det") = 1
  /\ slept = 680 * 1000

(***************************************************************************)
(* C9, C10: write followed by read                                         *)
(***************************************************************************)
\* the field of the last property_enable call, and its intent
LastField == FieldOf(cfg, log[Len(log)].fld)
LastIntent == log[Len(log)].en
Written == op = "property_enable" /\ log # << >>

\* both encodings fit the width of the bit range
Fits(reg) ==
  /\ Bits(reg.enable) \subseteq 0 .. (reg.bitend - reg.bitstart)
  /\ Bits(reg.disable) \subseteq 0 .. (reg.bitend - reg.bitstart)

\* C9 as stated: for every field with distinct encodings, fields at or above
\* bit 16 included, property_enabled after property_enable(en) returns en.
C9_RoundTripEveryField ==
  (Written /\ LastField.enable # LastField.disable) =>
    property_enabled(regs, LastField) = LastIntent

\* C9 amended: for every field with distinct encodings that lies within bits
\* 0..15 and whose encodings fit its width, property_enabled after
\* property_enable(en) returns en.
C9_RoundTripLowHalf ==
  (Written /\ LastField.enable # LastField.disable /\ LastField.bitend <= 15
     /\ Fits(LastField)) =>
    property_enabled(regs, LastField) = LastIntent

\* C9 witness: a multi-bit field disabled, then enabled, then read as enabled
C9_Witness ==
  /\ Written
  /\ Len(log) = 2
  /\ IsWrite(log[1], "phy_sus", FALSE)
  /\ IsWrite(log[2], "phy_sus", TRUE)
  /\ LastField.disable # 0
  /\ LastField.bitend > LastField.bitstart
  /\ property_enabled(regs, LastField)

\* C10: for a field whose enable encoding equals its disable encoding,
\* property_enabled returns true after property_enable(true) and after
\* property_enable(false) alike.
C10_EqualEncodingsReadTrue ==
  (Written /\ LastField.enable = LastField.disable) =>
    property_enabled(regs, LastField)

\* C10 witness: rk3588 reg 0x4000 phy_sus {0x000c, 11, 11, 0, 0}, written
\* with intent true, then false, on a register that held ones; it reads true
C10_Witness ==
  /\ Written
  /\ cfg = rk3588_4000_cfg
  /\ Len(log) = 2
  /\ IsWrite(log[1], "phy_sus", TRUE)
  /\ IsWrite(log[2], "phy_sus", FALSE)
  /\ property_enabled(regs, LastField)

(***************************************************************************)
(* C11, C12: failing register accesses                                     *)
(***************************************************************************)
\* positions of the log holding a register access, and those that failed
AccessAt == { i \in 1 .. Len(log) : log[i].op \in { "read", "write" } }
FailedAt == { i \in AccessAt : log[i].err # 0 }

\* C11 as stated: an accessor whose regmap access failed returns that error
\* to its caller: property_enable the error of regmap_write, property_enabled
\* the error of regmap_read instead of a boolean.
C11_AccessFailureReported ==
  \A i \in FailedAt : log[i].rv = log[i].err

\* the three detect bundles
Bundles ==
  { { "rdm_pdwn_en", "idp_src_en" }, { "vdp_src_en", "idm_sink_en" },
    { "vdm_src_en", "idp_sink_en" } }

\* the call enabled bundle b (its enable writes reached the registers) and
\* every field of b still reads enabled
LeftEnabled(b) ==
  /\ \A f \in b : \E i \in AccessAt \ FailedAt : IsWrite(log[i], f, TRUE)
  /\ \A f \in b : property_enabled(regs, Chg[f])

\* C12 as stated: a rockchip_chg_get_type call in which a register access
\* failed made no register access after the first failed one, and has left
\* none of the DCD, primary and secondary detect bundles enabled on return.
C12_AbortOnAccessFailure ==
  (Returned /\ op = "chg_get_type" /\ FailedAt # {}) =>
    /\ \A i \in FailedAt : \A j \in AccessAt : j <= i
    /\ \A b \in Bundles : ~LeftEnabled(b)

(***************************************************************************)
(* C13: the legacy variant                                                 *)
(***************************************************************************)
BundleFields == UNION Bundles

\* the presence check of the current call passed / failed
PresencePassed == log # << >> /\ log[1].op \in { "read", "gpio" } /\ log[1].en
PresenceFailed == log # << >> /\ log[1].op \in { "read", "gpio" } /\ ~log[1].en

\* C13: on the CONFIG_ROCKCHIP_RK3036 build a rockchip_chg_get_type call that
\* reached the presence check returns SDP when the check passed and Unknown
\* when it failed; it reads none of dp_det, cp_det, dcp_det, writes the enable
\* encoding of no detect bundle field, sleeps for nothing, and no step changes
\* dcd_retries or primary_retries.
C13_LegacyAlwaysSdp ==
  /\ []((cfg.legacy /\ op = "chg_get_type") =>
          /\ NReads("dp_det") + NReads("cp_det") + NReads("dcp_det") = 0
          /\ \A i \in 1 .. Len(log) :
                \A f \in BundleFields : ~IsWrite(log[i], f, TRUE)
          /\ slept = 0
          /\ (Returned /\ PresencePassed) => ret = POWER_SUPPLY_TYPE_USB
          /\ (Returned /\ PresenceFailed) => ret = POWER_SUPPLY_TYPE_UNKNOWN)
  /\ [][cfg.legacy =>
          /\ dcd_retries' = dcd_retries
          /\ primary_retries' = primary_retries]_vars

\* C13 witness: the legacy variant returned SDP without sleeping, having
\* read utmi_bvalid only
C13_Witness ==
  /\ cfg.legacy
  /\ Returned
  /\ PresencePassed
  /\ ret = POWER_SUPPLY_TYPE_USB
  /\ NRegReads = 1
  /\ slept = 0

(***************************************************************************)
(* C14, C16, C17: the port operations                                      *)
(***************************************************************************)
\* some port operation is called with phy->id = id
Lifecycle(id) ==
  \/ rockchip_usb2phy_init(id)
  \/ rockchip_usb2phy_exit(id)
  \/ rockchip_usb2phy_power_on(id)
  \/ rockchip_usb2phy_power_off(id)

\* C14 as stated: a port operation called for an id the bound table entry does
\* not define (an id other than OTG / HOST, or a port the entry leaves out)
\* returns an error, writes no register and calls no regulator.
C14_UndefinedPortRejected ==
  [][ \A id \in PhyIds :
        (id \notin cfg.ports /\ Lifecycle(id)) =>
          /\ ret' < 0
          /\ log' = << >>
          /\ regs' = regs ]_vars

\* the bit range of reg holds encoding v
Held(rs, reg, v) ==
  Shr(BitAnd(rs[reg.offset], GENMASK(reg.bitend, reg.bitstart)), reg.bitstart)
    = Bits(v)

\* C16: init(p), p in {OTG, HOST}, makes one register write, the disable
\* encoding of p's phy_sus (the field then holds it), waits 2 ms and returns
\* 0; exit(p) makes one register write, the enable encoding of p's phy_sus,
\* and returns 0; neither reads a register.
C16_InitExitOneWrite ==
  /\ []((op \in { "init", "exit" } /\ ret = 0) =>
          /\ NWrites = 1
          /\ NRegReads = 0
          /\ log[1].op = "write"
          /\ log[1].en = (op = "exit")
          /\ log[1].val = property_enable(LET r == FieldOf(cfg, log[1].fld)
                                          IN  r, op = "exit")
          /\ IF op = "init"
             THEN Len(log) = 2 /\ log[2] = EvDelay(2000) /\ slept = 2 * 1000
             ELSE Len(log) = 1 /\ slept = 0)
  /\ [][ \A id \in Ports :
            /\ rockchip_usb2phy_init(id) =>
                 /\ ret' = 0
                 /\ log'[1].fld = PortName(id)
                 /\ Held(regs', cfg.phy_sus[id + 1], cfg.phy_sus[id + 1].disable)
            /\ rockchip_usb2phy_exit(id) =>
                 /\ ret' = 0
                 /\ log'[1].fld = PortName(id)
                 /\ Held(regs', cfg.phy_sus[id + 1], cfg.phy_sus[id + 1].enable)
        ]_vars

\* C16 witness: init of the rk3399 HOST port, whose disable encoding is 2,
\* on registers that held ones
C16_Witness ==
  /\ op = "init"
  /\ ret = 0
  /\ cfg = rk3399_cfg
  /\ log[1].fld = "host_phy_sus"
  /\ Held(regs, cfg.phy_sus[USB2PHY_PORT_HOST + 1], 2)
  /\ regs[cfg.utmi_bvalid.offset] = BitPos
  /\ slept = 2000

\* C17: power_on(p) / power_off(p), p in {OTG, HOST}, access no register; with
\* no supply bound to p they call no regulator and return 0; with a supply
\* bound they call regulator_set_enable on it once, with true / false, and
\* return what it returned.
C17_PowerTogglesSupply ==
  /\ [](op \in { "power_on", "power_off" } =>
          /\ NWrites = 0
          /\ NRegReads = 0
          /\ IF log = << >> THEN ret = 0
             ELSE /\ Len(log) = 1
                  /\ log[1].op = "regulator"
                  /\ log[1].en = (op = "power_on")
                  /\ ret = log[1].err)
  /\ [][ \A id \in Ports :
            (rockchip_usb2phy_power_on(id) \/ rockchip_usb2phy_power_off(id)) =>
              /\ regs' = regs
              /\ IF vbus_supply[id]
                 THEN Len(log') = 1 /\ log'[1].offset = id
                 ELSE log' = << >> ]_vars

\* C17 witness: power_off on the HOST port's supply failed with -ENOSYS
C17_Witness ==
  /\ op = "power_off"
  /\ vbus_supply[USB2PHY_PORT_HOST]
  /\ log = << EvRegulator(USB2PHY_PORT_HOST, FALSE, -ENOSYS) >>
  /\ ret = -ENOSYS

(***************************************************************************)
(* C15: the table lookup of probe                                          *)
(***************************************************************************)
\* indices of the table's entries whose reg equals the identifier
Matches == { i \in 0 .. (phy_cfgs.entries - 1) : phy_cfgs.regs[i + 1] = dt_reg }

\* C15 as stated: on every table, the ones without a terminating element
\* included, the lookup binds the first entry whose reg equals the
\* identifier, fails with -EINVAL when there is none, and at no point
\* examines an element past the table's last declared one.
C15_LookupStaysInTable ==
  /\ overrun = 0
  /\ probe_pc = "done" =>
       IF Matches = {} THEN ret = -EINVAL /\ matched = -1
       ELSE /\ ret = 0
            /\ matched \in Matches
            /\ \A i \in Matches : matched <= i

(***************************************************************************)
(* C18: rockchip_u2phy_vbus_detect                                         *)
(***************************************************************************)
\* C18: rockchip_u2phy_vbus_detect returns 1 exactly when the call of
\* rockchip_chg_get_type it made returned SDP or CDP; it returns 0 for
\* Unknown, DCP, FloatingDCP and for a negative error value.
C18_DataPortIffSdpOrCdp ==
  pc = "detected" =>
    /\ detected \in { 0, 1 }
    /\ detected = 1 <=>
         ret \in { POWER_SUPPLY_TYPE_USB, POWER_SUPPLY_TYPE_USB_CDP }
    /\ ret \in { POWER_SUPPLY_TYPE_UNKNOWN, POWER_SUPPLY_TYPE_USB_DCP,
                  POWER_SUPPLY_TYPE_USB_FLOATING } => detected = 0
    /\ ret < 0 => detected = 0

\* C18 witness: the detection call failed in its device lookup, 0 is returned
C18_Witness ==
  /\ pc = "detected"
  /\ ret = -ENODEV
  /\ detected = 0

(***************************************************************************)
(* C19: time slept when the DCD budget is exhausted                        *)
(***************************************************************************)
\* the call polled dp_det six times and never saw it asserted
DcdExhausted ==
  /\ NReads("dp_det") = CHG_DCD_MAX_RETRIES
  /\ NoneTrue(ReadsOf("dp_det"))

\* C19 as stated: a call that exhausted the DCD budget has slept exactly
\* 6 * 100 ms + 40 ms = 640 ms when it returns, whether the first cp_det read
\* was false (FloatingDCP) or true (secondary detection).
C19_Always640 ==
  (Returned /\ DcdExhausted) => slept = (6 * 100 + 40) * 1000

\* C19 amended: such a call has slept 640 ms when it makes its first cp_det
\* read; it returns FloatingDCP having slept 640 ms in all when that read is
\* false, and DCP or CDP having slept 640 ms + 40 ms = 680 ms in all when it
\* is true, the secondary detection adding its own 40 ms.
C19_640ThenSecondary ==
  (Returned /\ DcdExhausted) =>
    /\ NReads("cp_det") = 1
    /\ \E i \in 1 .. Len(log) :
         /\ IsRead(log[i], "cp_det")
         /\ log[i - 1] = EvDelay(CHG_PRIMARY_DET_TIME * 1000)
         /\ Len(SelectSeq(SubSeq(log, 1, i), LAMBDA e : e.op = "delay")) =
              CHG_DCD_MAX_RETRIES + 1
    /\ IF ReadsOf("cp_det")[1].en
       THEN /\ slept = (6 * 100 + 40 + 40) * 1000
            /\ ret \in { POWER_SUPPLY_TYPE_USB_DCP, POWER_SUPPLY_TYPE_USB_CDP }
       ELSE /\ slept = (6 * 100 + 40) * 1000
            /\ ret = POWER_SUPPLY_TYPE_USB_FLOATING

\* C19 witness: budget exhausted, cp_det true, DCP after 680 ms
C19_Witness ==
  /\ Returned
  /\ DcdExhausted
  /\ ReadsOf("cp_det")[1].en
  /\ ret = POWER_SUPPLY_TYPE_USB_DCP
  /\ slept = 680000

(***************************************************************************)
(* C20: every run starts from fresh budgets                                *)
(***************************************************************************)
\* the values read from field f in the current call, in order
Vals(f) == [i \in 1 .. NReads(f) |-> ReadsOf(f)[i].en]

\* all but the last value are false
FirstTrueEnds(vs) == \A i \in 1 .. (Len(vs) - 1) : ~vs[i]

\* C20: a run that passed the presence check sets dcd_retries to 6 and
\* primary_retries to 2 before its first poll, whatever earlier runs left in
\* them.  Its number of reads and its result are therefore fixed by the
\* values it reads: dp_det is polled until it is asserted, 6 times at most;
\* cp_det is read until it is asserted, once if all 6 polls were used, else 3
\* times at most; then DCP / CDP by the one dcp_det read, or FloatingDCP
\* (6 polls) / SDP (fewer) without a dcp_det read.
C20_FreshBudgetsEachRun ==
  /\ [][ pc = "suspend" =>
            /\ dcd_retries' = CHG_DCD_MAX_RETRIES
            /\ primary_retries' = CHG_PRI_MAX_RETRIES ]_vars
  /\ []((pc = "dcd" /\ NReads("dp_det") = 0) =>
          /\ dcd_retries = CHG_DCD_MAX_RETRIES
          /\ primary_retries = CHG_PRI_MAX_RETRIES)
  /\ []((Returned /\ PresencePassed /\ ~cfg.legacy) =>
          LET dp == Vals("dp_det")
              cp == Vals("cp_det")
              dcp == Vals("dcp_det")
          IN  /\ Len(dp) \in 1 .. CHG_DCD_MAX_RETRIES
              /\ FirstTrueEnds(dp)
              /\ Len(dp) < CHG_DCD_MAX_RETRIES => dp[Len(dp)]
              /\ Len(cp) >= 1
              /\ FirstTrueEnds(cp)
              /\ IF cp[Len(cp)]
                 THEN /\ Len(cp) <= (IF Len(dp) = CHG_DCD_MAX_RETRIES THEN 1
                                     ELSE 1 + CHG_PRI_MAX_RETRIES)
                      /\ Len(dcp) = 1
                      /\ ret = IF dcp[1] THEN POWER_SUPPLY_TYPE_USB_DCP
                               ELSE POWER_SUPPLY_TYPE_USB_CDP
                 ELSE /\ Len(dcp) = 0
                      /\ IF Len(dp) = CHG_DCD_MAX_RETRIES
                         THEN /\ Len(cp) = 1
                              /\ ret = POWER_SUPPLY_TYPE_USB_FLOATING
                         ELSE /\ Len(cp) = 1 + CHG_PRI_MAX_RETRIES
                              /\ ret = POWER_SUPPLY_TYPE_USB)

\* C20 witness: a run has passed the presence check and is about to start
\* detection with the budgets an earlier SDP run left: dcd_retries 3 and
\* primary_retries wrapped to 255
C20_Witness ==
  /\ pc = "suspend"
  /\ PresencePassed
  /\ dcd_retries = 3
  /\ primary_retries = 255

(***************************************************************************)
(* C21: the DCD loop and its counter                                       *)
(***************************************************************************)
\* positions of the dp_det reads of the current call
DpAt == { i \in 1 .. Len(log) : IsRead(log[i], "dp_det") }

\* the current call has left the DCD loop
PastDcd ==
  /\ op = "chg_get_type"
  /\ DpAt # {}
  /\ pc \in { "primary", "retry", "secondary", "out", "done", "detected" }

\* C21: every dp_det poll consumes one retry, the poll that ends the loop
\* included: in the loop and after it dcd_retries is 6 minus the number of
\* polls made, 0..5 after the loop, and the last poll is followed by the
\* writes that disable the DCD bundle and enable the primary bundle.  When
\* the first cp_det read is false the call returns FloatingDCP exactly when 6
\* polls were made (dp_det asserted on the 6th or not), and makes primary
\* retries exactly when at most 5 were made.
C21_DcdConsumesEveryPoll ==
  /\ pc = "dcd" =>
       /\ dcd_retries = CHG_DCD_MAX_RETRIES - NReads("dp_det")
       /\ dcd_retries \in 1 .. CHG_DCD_MAX_RETRIES
  /\ PastDcd =>
       /\ dcd_retries = CHG_DCD_MAX_RETRIES - NReads("dp_det")
       /\ dcd_retries \in 0 .. (CHG_DCD_MAX_RETRIES - 1)
       /\ \E i \in DpAt :
            /\ \A j \in DpAt : j <= i
            /\ Len(log) >= i + 4
            /\ IsWrite(log[i + 1], "rdm_pdwn_en", FALSE)
            /\ IsWrite(log[i + 2], "idp_src_en", FALSE)
            /\ IsWrite(log[i + 3], "vdp_src_en", TRUE)
            /\ IsWrite(log[i + 4], "idm_sink_en", TRUE)
  /\ pc = "retry" => NReads("dp_det") < CHG_DCD_MAX_RETRIES
  /\ (PastDcd /\ Returned /\ ~ReadsOf("cp_det")[1].en) =>
       /\ (ret = POWER_SUPPLY_TYPE_USB_FLOATING) =
            (NReads("dp_det") = CHG_DCD_MAX_RETRIES)
       /\ (NReads("cp_det") > 1) = (NReads("dp_det") < CHG_DCD_MAX_RETRIES)

\* C21 witness: dp_det asserted on the 6th poll, cp_det false: FloatingDCP
C21_Witness ==
  /\ Returned
  /\ NReads("dp_det") = 6
  /\ ReadsOf("dp_det")[6].en
  /\ ~ReadsOf("cp_det")[1].en
  /\ dcd_retries = 0
  /\ ret = POWER_SUPPLY_TYPE_USB_FLOATING

(***************************************************************************)
(* C22: the attempts of the primary retry stage                            *)
(***************************************************************************)
CpAt == { i \in 1 .. Len(log) : IsRead(log[i], "cp_det") }
\* the cp_det reads made by rockchip_chg_primary_det_retry: all but the first
RetryAt == { i \in CpAt : \E j \in CpAt : j < i }

\* an attempt reading at log position i began with the bundle's enable writes
\* and the 40 ms sleep
AttemptHead(i) ==
  /\ i > 3
  /\ IsWrite(log[i - 3], "vdp_src_en", TRUE)
  /\ IsWrite(log[i - 2], "idm_sink_en", TRUE)
  /\ log[i - 1] = EvDelay(CHG_PRIMARY_DET_TIME * 1000)

\* the accesses after log position i begin with the bundle's writes of en
PrimaryWrittenAfter(i, en) ==
  /\ Len(log) >= i + 2
  /\ IsWrite(log[i + 1], "vdp_src_en", en)
  /\ IsWrite(log[i + 2], "idm_sink_en", en)

\* the retry loop of the current call is over
RetryOver == pc \in { "secondary", "out", "done", "detected" }

\* C22: at most 2 retry attempts, none after a true cp_det read,
\* each made of enable, 40 ms sleep, cp_det read and disable, so that the
\* Primary Detect bundle is disabled after every attempt, before the next one.
C22_DisabledAfterEveryAttempt ==
  op = "chg_get_type" =>
    /\ Cardinality(RetryAt) <= CHG_PRI_MAX_RETRIES
    /\ \A i \in RetryAt :
         /\ AttemptHead(i)
         /\ log[i].en => \A j \in RetryAt : j <= i
         /\ (Len(log) > i \/ RetryOver) => PrimaryWrittenAfter(i, FALSE)

\* a run in which the first retry attempt read false and the second began
\* with the bundle still enabled
C22_Reached ==
  /\ Returned
  /\ Cardinality(RetryAt) = 2
  /\ \E i \in RetryAt : ~log[i].en /\ PrimaryWrittenAfter(i, TRUE)

(***************************************************************************)
(* C23: order of the stages                                                *)
(***************************************************************************)
\* at log position i the last write of every field of bundle b was an enable
EnabledAt(b, i) ==
  \A f \in b :
    \E k \in 1 .. (i - 1) :
      /\ IsWrite(log[k], f, TRUE)
      /\ \A l \in (k + 1) .. (i - 1) : ~(log[l].op = "write" /\ log[l].fld = f)

\* C23: in every rockchip_chg_get_type call every dp_det read precedes every
\* cp_det read, which precedes the dcp_det read; dp_det is read only while the
\* last write of the DCD bundle was an enable, cp_det only while that of the
\* primary bundle was, dcp_det only while that of the secondary bundle was;
\* and dcp_det is read only after a cp_det read of the call returned true.
C23_StagesInOrder ==
  op = "chg_get_type" =>
    /\ \A i \in DpAt, j \in CpAt : i < j
    /\ \A j \in CpAt, d \in DcpAt : j < d
    /\ \A i \in DpAt : EnabledAt({ "rdm_pdwn_en", "idp_src_en" }, i)
    /\ \A j \in CpAt : EnabledAt({ "vdp_src_en", "idm_sink_en" }, j)
    /\ \A d \in DcpAt :
         /\ EnabledAt({ "vdm_src_en", "idp_sink_en" }, d)
         /\ \E j \in CpTrueAt : j < d

\* C23 witness: a run through all three stages: polls, a retry, dcp_det read
C23_Witness ==
  /\ Returned
  /\ Cardinality(DpAt) > 1
  /\ Cardinality(CpAt) > 1
  /\ DcpAt # {}

(***************************************************************************)
(* C24, C25: what one accessor call does                                   *)
(***************************************************************************)
\* the step appended exactly one access e to the log
OneAccess == Len(log') = Len(log) + 1 /\ SubSeq(log', 1, Len(log)) = log
NewAccess == log'[Len(log')]

\* bit by bit: value v placed at bitstart, bits bitstart..bitend repeated 16
\* places higher, what falls beyond bit 31 dropped
WriteWord(reg, v) ==
  { b \in BitPos :
      \/ b >= reg.bitstart /\ (b - reg.bitstart) \in BitsFrom(v, 0)
      \/ b - 16 >= reg.bitstart /\ b - 16 <= reg.bitend }

\* C24: property_enable(reg, en) makes exactly one register access, a write
\* to reg.offset of the word (v << bitstart) | (GENMASK(bitend, bitstart) << 16)
\* cut to 32 bits, v being reg.enable when en is true and reg.disable
\* otherwise; it reads nothing.
C24_OneMaskedWrite ==
  [][ op' = "property_enable" =>
        /\ OneAccess
        /\ NewAccess.op = "write"
        /\ \E reg \in { FieldOf(cfg, NewAccess.fld) } :
             /\ NewAccess.offset = reg.offset
             /\ NewAccess.val =
                  WriteWord(reg, IF NewAccess.en THEN reg.enable
                                 ELSE reg.disable)
             /\ regs' = regmap_write(regs, reg.offset, NewAccess.val) ]_vars

\* C24 witness: a multi-bit field written with its disable encoding
C24_Witness ==
  /\ Written
  /\ ~LastIntent
  /\ LastField.bitend > LastField.bitstart + 1
  /\ LastField.disable # 0
  /\ LastField.disable # LastField.enable
  /\ log[Len(log)].val = WriteWord(LastField, LastField.disable)

\* bits bitstart..bitend of word w, moved down to bit 0
Extracted(w, reg) ==
  { k \in BitPos : k + reg.bitstart <= reg.bitend /\ (k + reg.bitstart) \in w }

\* C25: property_enabled(reg) makes exactly one register access, a read of
\* reg.offset, writes nothing, and returns true exactly when bits
\* bitstart..bitend of the register, moved down to bit 0, equal reg.enable:
\* false for a non-zero value other than reg.enable, true for zero when
\* reg.enable is 0.
C25_ExactMatchRead ==
  [][ op' = "property_enabled" =>
        /\ OneAccess
        /\ NewAccess.op = "read"
        /\ regs' = regs
        /\ \E reg \in { FieldOf(cfg, NewAccess.fld) } :
             \E x \in { Extracted(regs[reg.offset], reg) } :
               /\ NewAccess.offset = reg.offset
               /\ NewAccess.en = (x = BitsFrom(reg.enable, 0))
               /\ (x # {} /\ x # BitsFrom(reg.enable, 0)) => ~NewAccess.en
               /\ (x = {} /\ reg.enable = 0) => NewAccess.en ]_vars

\* C25 witness: rk3588 dp_det {0x00c0, 1, 1, 1, 0} read true on a zero bit
C25_Witness ==
  /\ op = "property_enabled"
  /\ log # << >>
  /\ IsRead(log[Len(log)], "dp_det")
  /\ log[Len(log)].en
  /\ cfg.chg_det.dp_det.enable = 0
  /\ cfg.chg_det.dp_det.disable = 1
  /\ Extracted(regs[cfg.chg_det.dp_det.offset], cfg.chg_det.dp_det) = {}

\* a read that returned false on a non-zero value other than reg.enable
C25_NonZeroMismatch ==
  /\ op = "property_enabled"
  /\ log # << >>
  /\ ~log[Len(log)].en
  /\ log[Len(log)].op = "read"
  /\ LastField.enable # 0
  /\ Extracted(regs[LastField.offset], LastField) # {}

(***************************************************************************)
(* C26: fields a table entry does not define                               *)
(***************************************************************************)
\* C26: no operation reads or writes the register space through a field
\* whose descriptor is absent (all zero) in the bound table entry: not
\* utmi_bvalid where the OTG port does not define it, not opmode where there
\* is no charger-detect bundle, not phy_sus of a port the entry lacks.
C26_AbsentNeverAccessed ==
  \A i \in 1 .. Len(log) :
    log[i].op \in { "read", "write" } => FieldOf(cfg, log[i].fld) # Absent

\* the three accesses through absent descriptors that the runs reach
C26_AbsentBvalidRead ==
  /\ op = "chg_get_type"
  /\ cfg.name = "rk322x_800"
  /\ log # << >>
  /\ IsRead(log[1], "utmi_bvalid")
  /\ cfg.utmi_bvalid = Absent
C26_AbsentOpmodeWritten ==
  /\ Returned
  /\ cfg.legacy
  /\ \E i \in 1 .. Len(log) : IsWrite(log[i], "opmode", TRUE)
  /\ cfg.chg_det.opmode = Absent
C26_AbsentPortResumed ==
  /\ op = "init"
  /\ ret = 0
  /\ log # << >>
  /\ IsWrite(log[1], "host_phy_sus", FALSE)
  /\ cfg.phy_sus[USB2PHY_PORT_HOST + 1] = Absent

(***************************************************************************)
(* C27: the legacy shortcut and the cleanup                                *)
(***************************************************************************)
\* a returned legacy call whose presence check passed
LegacyPassed == Returned /\ op = "chg_get_type" /\ cfg.legacy /\ PresencePassed

\* C27 as stated: on the CONFIG_ROCKCHIP_RK3036 build a call that passes the
\* presence check returns before stage 1 and bypasses the cleanup: it writes
\* neither opmode nor the OTG phy_sus field.
C27_LegacyBypassesCleanup ==
  LegacyPassed =>
    \A i \in 1 .. Len(log) :
      ~(log[i].op = "write" /\ log[i].fld \in { "opmode", "phy_sus" })

\* C27 amended: on the CONFIG_ROCKCHIP_RK3036 build a call that passes the
\* presence check skips stages 1 to 4 but not the cleanup: after the presence
\* access it makes exactly two accesses, the write of opmode enable and then
\* the write of OTG phy_sus disable, and never writes phy_sus enable or
\* opmode disable.
C27_LegacyCleanupOnly ==
  LegacyPassed =>
    /\ Len(log) = 3
    /\ IsWrite(log[2], "opmode", TRUE)
    /\ log[2].offset = Chg.opmode.offset
    /\ log[2].val = property_enable(Chg.opmode, TRUE)
    /\ IsWrite(log[3], "phy_sus", FALSE)
    /\ log[3].offset = OtgPort.offset
    /\ log[3].val = property_enable(OtgPort, FALSE)

\* C27 witness: the legacy call returned SDP after the two cleanup writes
C27_Witness ==
  /\ LegacyPassed
  /\ ret = POWER_SUPPLY_TYPE_USB
  /\ NWrites = 2
  /\ IsWrite(log[Len(log)], "phy_sus", FALSE)

(***************************************************************************)
(* C29, C30: the order of the writes of one run                            *)
(***************************************************************************)
\* the register writes of the current call, in order
WritesOf == SelectSeq(log, LAMBDA e : e.op = "write")
IsBundleWrite(e) == e.op = "write" /\ e.fld \in BundleFields

\* C29: in a non-legacy rockchip_chg_get_type call that passed the presence
\* check the first write enables OTG phy_sus and the second disables opmode;
\* every write of a detect bundle field comes after those two; on return the
\* second-to-last write enables opmode, the last disables OTG phy_sus, and the
\* last write of every bundle field written is a disable.
C29_WritesBracketed ==
  (op = "chg_get_type" /\ ~cfg.legacy) =>
    \E w \in { WritesOf } :
      /\ Len(w) >= 1 =>
           /\ Len(w) >= 2
           /\ IsWrite(w[1], "phy_sus", TRUE)
           /\ IsWrite(w[2], "opmode", FALSE)
           /\ \A k \in 1 .. 2 : ~IsBundleWrite(w[k])
      /\ \A k \in 1 .. Len(w) :
           (IsBundleWrite(w[k]) /\ w[k].en) =>
             \E j \in 1 .. (k - 1) : IsWrite(w[j], "opmode", FALSE)
      /\ (Returned /\ PresencePassed) =>
           /\ Len(w) >= 4
           /\ IsWrite(w[Len(w) - 1], "opmode", TRUE)
           /\ IsWrite(w[Len(w)], "phy_sus", FALSE)
           /\ \A k \in 1 .. (Len(w) - 2) :
                ~(w[k].op = "write" /\ w[k].fld = "opmode" /\ w[k].en)
           /\ \A f \in BundleFields :
                \A k \in 1 .. Len(w) :
                  IsWrite(w[k], f, TRUE) =>
                    \E l \in (k + 1) .. (Len(w) - 2) : IsWrite(w[l], f, FALSE)

\* C29 witness: a run that enabled and disabled all three bundles
C29_Witness ==
  /\ Returned
  /\ op = "chg_get_type"
  /\ ~cfg.legacy
  /\ \A f \in BundleFields :
       \E k \in 1 .. Len(log) : IsWrite(log[k], f, TRUE)
  /\ IsWrite(WritesOf[1], "phy_sus", TRUE)
  /\ IsWrite(WritesOf[Len(WritesOf)], "phy_sus", FALSE)

\* the bundle a detect field belongs to
BundleOf(f) == CHOOSE b \in Bundles : f \in b

\* in the writes w[1..k] the last write of field f was an enable
LastWasEnable(w, k, f) ==
  \E j \in 1 .. k :
    /\ IsWrite(w[j], f, TRUE)
    /\ \A l \in (j + 1) .. k : ~(w[l].fld = f)

\* C30: no enable write of a field of one detect bundle is issued while the
\* last write of a field of another bundle was an enable: the DCD bundle is
\* wholly disabled before the primary bundle is enabled, the primary bundle
\* wholly disabled before the secondary bundle is enabled.
C30_BundlesExclusive ==
  op = "chg_get_type" =>
    \E w \in { WritesOf } :
      \A k \in 1 .. Len(w) :
        (IsBundleWrite(w[k]) /\ w[k].en) =>
          \A g \in BundleFields \ BundleOf(w[k].fld) :
            ~LastWasEnable(w, k - 1, g)

\* C30 witness: the secondary bundle enabled after the other two were enabled
\* and disabled in turn
C30_Witness ==
  /\ op = "chg_get_type"
  /\ pc = "secondary"
  /\ \E a, b, c \in 1 .. Len(log) :
       /\ a < b
       /\ b < c
       /\ IsWrite(log[a], "idp_src_en", TRUE)
       /\ IsWrite(log[b], "idm_sink_en", TRUE)
       /\ IsWrite(log[c], "idp_sink_en", TRUE)

(***************************************************************************)
(* C28: two interleaved calls                                              *)
(***************************************************************************)
\* the other call changed a budget the current call went on to read
Disturbed == \E i \in 1 .. Len(log) : log[i] = EvResume

\* the classification one call alone gives for the values in dp, cp and dcp;
\* -1 when no call alone reads such values
Decide(dp, cp, dcp) ==
  LET polls == Len(dp)
      classify == IF Len(dcp) = 1 /\ dcp[1].en THEN POWER_SUPPLY_TYPE_USB_DCP
                  ELSE IF Len(dcp) = 1 THEN POWER_SUPPLY_TYPE_USB_CDP
                  ELSE -1
  IN  IF polls = 0 \/ polls > CHG_DCD_MAX_RETRIES \/ Len(cp) = 0 THEN -1
      ELSE IF \E i \in 1 .. (polls - 1) : dp[i].en THEN -1
      ELSE IF ~dp[polls].en /\ polls < CHG_DCD_MAX_RETRIES THEN -1
      ELSE IF cp[1].en THEN (IF Len(cp) = 1 THEN classify ELSE -1)
      ELSE IF polls = CHG_DCD_MAX_RETRIES
      THEN (IF Len(cp) = 1 /\ Len(dcp) = 0
            THEN POWER_SUPPLY_TYPE_USB_FLOATING ELSE -1)
      ELSE IF Len(cp) = 2 /\ cp[2].en THEN classify
      ELSE IF Len(cp) = 3 /\ ~cp[2].en /\ cp[3].en THEN classify
      ELSE IF Len(cp) = 3 /\ ~cp[2].en /\ Len(dcp) = 0
      THEN POWER_SUPPLY_TYPE_USB
      ELSE -1

Decided == Decide(ReadsOf("dp_det"), ReadsOf("cp_det"), ReadsOf("dcp_det"))

\* a call that went past the presence check has returned
RanToEnd == Returned /\ op = "chg_get_type" /\ NWrites > 0

\* C28: two calls on one rphy share dcd_retries and primary_retries.  A call
\* returns what a call alone gives for the values it read as long as the other
\* call has not changed a budget it went on to read; C28_Witness is the
\* interleaving in which it does not: six unasserted polls and a false cp_det,
\* yet not FloatingDCP, the other call having reset dcd_retries in between.
C28_WrongOnlyWhenDisturbed ==
  (RanToEnd /\ ~Disturbed) => ret = Decided

\* C28 witness: six unasserted polls, cp_det false, and the call returns SDP
C28_Witness ==
  /\ RanToEnd
  /\ Disturbed
  /\ NReads("dp_det") = CHG_DCD_MAX_RETRIES
  /\ NoneTrue(ReadsOf("dp_det"))
  /\ ~ReadsOf("cp_det")[1].en
  /\ Decided = POWER_SUPPLY_TYPE_USB_FLOATING
  /\ ret = POWER_SUPPLY_TYPE_USB
  /\ other = NoCall

(***************************************************************************)
(* C31: the register footprint of rockchip_chg_get_type                    *)
(***************************************************************************)
\* the fields the detection writes and the status fields it reads
DetectWrites == { "phy_sus", "opmode" } \cup BundleFields
DetectReads == { "utmi_bvalid", "dp_det", "cp_det", "dcp_det" }

\* two descriptors name a common bit of one register
Overlap(r1, r2) ==
  /\ r1.offset = r2.offset
  /\ BitAnd(GENMASK(r1.bitend, r1.bitstart),
            GENMASK(r2.bitend, r2.bitstart)) # {}

\* log entry e is the write of en to descriptor reg / a read of reg
WriteTo(e, reg) ==
  /\ e.offset = reg.offset
  /\ e.val = WriteWord(reg, IF e.en THEN reg.enable ELSE reg.disable)
ReadOf(e, reg) == e.offset = reg.offset

\* the table entry has a Host port with a suspend field of its own
HasHost ==
  /\ USB2PHY_PORT_HOST \in cfg.ports
  /\ cfg.phy_sus[USB2PHY_PORT_HOST + 1] # Absent

\* C31: whatever wrote "phy_sus" last (the detection, rockchip_usb2phy_init or
\* rockchip_usb2phy_exit on the OTG port, otg_phy_init) wrote the word of
\* port_cfgs[USB2PHY_PORT_OTG].phy_sus; and in a rockchip_chg_get_type call
\* every write is one of phy_sus, opmode and the six bundle fields through
\* its descriptor, every register read one of utmi_bvalid, dp_det, cp_det and
\* dcp_det, no access names a bit of the Host port's phy_sus, and all
\* accesses go to one regmap, the one get_reg_base returns.
C31_ClosedFootprint ==
  /\ \A i \in DOMAIN log :
       (log[i].op = "write" /\ log[i].fld = "phy_sus") =>
         WriteTo(log[i], cfg.phy_sus[USB2PHY_PORT_OTG + 1])
  /\ op = "chg_get_type" =>
       \A i \in DOMAIN log :
         /\ log[i].op = "write" =>
              /\ log[i].fld \in DetectWrites
              /\ WriteTo(log[i], FieldOf(cfg, log[i].fld))
         /\ log[i].op = "read" =>
              /\ log[i].fld \in DetectReads
              /\ ReadOf(log[i], FieldOf(cfg, log[i].fld))
         /\ log[i].op \in { "read", "write" } =>
              /\ HasHost =>
                   ~Overlap(FieldOf(cfg, log[i].fld),
                            cfg.phy_sus[USB2PHY_PORT_HOST + 1])
              /\ log[i].base = IF usbgrf_base = NULL THEN grf_base
                               ELSE usbgrf_base
              /\ \A j \in DOMAIN log :
                   log[j].op \in { "read", "write" } =>
                     log[j].base = log[i].base

\* C31 witness: on a node with a USB GRF and an entry with a Host port, a
\* detection that went through all three stages has returned
C31_Witness ==
  /\ Returned
  /\ op = "chg_get_type"
  /\ usbgrf_base # NULL
  /\ HasHost
  /\ \E i \in DOMAIN log : IsWrite(log[i], "phy_sus", TRUE)
  /\ \E i \in DOMAIN log : IsWrite(log[i], "phy_sus", FALSE)
  /\ \A f \in BundleFields : \E i \in DOMAIN log : IsWrite(log[i], f, FALSE)
  /\ \A f \in DetectReads \ { "utmi_bvalid" } :
       \E i \in DOMAIN log : IsRead(log[i], f)

(***************************************************************************)
(* C32: the bundle fields after a run                                      *)
(***************************************************************************)
\* two fields of the detect bundles are given the same register bits
SharedBits ==
  \E f \in BundleFields :
    \E g \in BundleFields \ { f } : Overlap(Chg[f], Chg[g])

\* the same operations on registers that hold zeros when probe has bound the
\* entry: no detect field reads enabled for having been found so
InitClean ==
  /\ Init
  /\ \A o \in CfgOffsets(cfg) : regs[o] = {}

SpecClean == InitClean /\ [][Next]_vars

\* C32 as stated: on every entry with a charger-detect table, when a
\* rockchip_chg_get_type call that passed the presence check has returned,
\* property_enabled is false for each of rdm_pdwn_en, idp_src_en, vdp_src_en,
\* idm_sink_en, vdm_src_en and idp_sink_en.
C32_BundleFieldsReadFalse ==
  (Returned /\ op = "chg_get_type" /\ PresencePassed
     /\ cfg.chg_det # NoChgDet) =>
    \A f \in BundleFields : ~property_enabled(regs, Chg[f])

\* the case C32 fails on: a run on an entry whose idm_sink_en and idp_sink_en
\* are one bit with opposite encodings has gone through the secondary stage
\* and returned, and idm_sink_en reads enabled
C32_Reached ==
  /\ Returned
  /\ op = "chg_get_type"
  /\ PresencePassed
  /\ SharedBits
  /\ \E i \in DOMAIN log : IsWrite(log[i], "idp_sink_en", FALSE)
  /\ property_enabled(regs, Chg.idm_sink_en)
  /\ ~property_enabled(regs, Chg.idp_sink_en)

(***************************************************************************)
(* C33: opmode inside the OTG phy_sus field                                *)
(***************************************************************************)
\* the entry puts opmode on bits of the OTG port's phy_sus field
OpmodeInSus ==
  /\ Chg.opmode # Absent
  /\ Chg.opmode.offset = OtgPort.offset
  /\ OtgPort.bitstart <= Chg.opmode.bitstart
  /\ Chg.opmode.bitend <= OtgPort.bitend

\* the bits of register word w that descriptor reg names, in place
FieldBits(w, reg) == BitAnd(w, GENMASK(reg.bitend, reg.bitstart))

\* the phy_sus bits once suspend was written and then opmode disabled
Stage1Bits ==
  BitOr(Shl(Bits(OtgPort.enable), OtgPort.bitstart)
          \ GENMASK(Chg.opmode.bitend, Chg.opmode.bitstart),
        Shl(Bits(Chg.opmode.disable), Chg.opmode.bitstart))

\* the call is between its first stage and its cleanup
MidRun ==
  /\ op = "chg_get_type"
  /\ pc \in { "dcd", "primary", "retry", "secondary" }

\* C33: on an entry whose opmode lies inside the OTG phy_sus field, from the
\* end of stage 1 to the cleanup the phy_sus bits hold the suspend encoding
\* with opmode's disable value over it (0x1d5 on rk1808) and phy_sus does not
\* read enabled; when a run that passed the presence check has returned the
\* bits hold phy_sus.disable, and opmode reads enabled if and only if
\* phy_sus.disable on opmode's bits is opmode.enable.
C33_OpmodeInsideSuspend ==
  OpmodeInSus =>
    /\ MidRun =>
         /\ FieldBits(regs[OtgPort.offset], OtgPort) = Stage1Bits
         /\ cfg = rk1808_cfg => Held(regs, OtgPort, \h1d5)
         /\ ~property_enabled(regs, OtgPort)
    /\ (Returned /\ op = "chg_get_type" /\ PresencePassed) =>
         /\ Held(regs, OtgPort, OtgPort.disable)
         /\ property_enabled(regs, Chg.opmode) <=>
              (Extracted(FieldBits(Shl(Bits(OtgPort.disable),
                                       OtgPort.bitstart), Chg.opmode),
                         Chg.opmode)
                 = Bits(Chg.opmode.enable))

\* C33 witness: a run on rk1808 went from 0x1d5 to its return, where the
\* register holds phy_sus.disable and opmode, written enabled, reads disabled
C33_Witness ==
  /\ cfg = rk1808_cfg
  /\ OpmodeInSus
  /\ Returned
  /\ op = "chg_get_type"
  /\ \E i \in DOMAIN log : IsWrite(log[i], "opmode", FALSE)
  /\ IsWrite(log[Len(log) - 1], "opmode", TRUE)
  /\ IsWrite(log[Len(log)], "phy_sus", FALSE)
  /\ ~property_enabled(regs, Chg.opmode)

(***************************************************************************)
(* C34: the suspend state a detection finds and the one it leaves          *)
(***************************************************************************)
\* rockchip_usb2phy_exit on the OTG port, then one rockchip_chg_get_type call
NextEntry ==
  \/ op = "none" /\ rockchip_usb2phy_exit(USB2PHY_PORT_OTG)
  \/ op = "exit" /\ GetTypeLookup /\ caller' = "direct"
  \/ GetTypeRun

SpecEntry == Init /\ [][NextEntry]_vars

\* a step of the call up to the presence check that ends it
UnknownStep ==
  \/ GetTypeLookup
  \/ pc = "vbus" /\ pc' = "done" /\ ret' = POWER_SUPPLY_TYPE_UNKNOWN

\* C34: rockchip_chg_get_type is entered with the OTG port suspended by
\* rockchip_usb2phy_exit.  When the presence check passes, the call returns
\* with the OTG phy_sus bits at the disable encoding, not the one found; when
\* it fails, no step of the call changes a register or writes one, and phy_sus
\* is as rockchip_usb2phy_exit left it.
C34_SuspendNotRestored ==
  /\ [][GetTypeLookup => Held(regs, OtgPort, OtgPort.enable)]_vars
  /\ []((Returned /\ op = "chg_get_type" /\ PresencePassed) =>
          Held(regs, OtgPort, OtgPort.disable))
  /\ [][UnknownStep => (regs' = regs /\ NWrites' = 0)]_vars
  /\ []((Returned /\ op = "chg_get_type" /\ PresenceFailed) =>
          (NWrites = 0 /\ Held(regs, OtgPort, OtgPort.enable)))

\* C34 witness: entered suspended, the run passed the presence check and
\* returned with the port resumed
C34_Witness ==
  /\ Returned
  /\ op = "chg_get_type"
  /\ PresencePassed
  /\ OtgPort.enable # OtgPort.disable
  /\ Held(regs, OtgPort, OtgPort.disable)
  /\ ~Held(regs, OtgPort, OtgPort.enable)

(***************************************************************************)
(* C35: primary_retries at return                                          *)
(***************************************************************************)
\* the cp_det reads of rockchip_chg_primary_det_retry, in order
RetryReads == SelectSeq([i \in 1 .. Len(log) |->
                           [e |-> log[i], retry |-> i \in RetryAt]],
                        LAMBDA x : x.retry)

\* the retry stage ended on its test, both attempts having read false
RetryExhausted ==
  /\ Len(RetryReads) = CHG_PRI_MAX_RETRIES
  /\ \A k \in DOMAIN RetryReads : ~RetryReads[k].e.en

\* what the post-decrement test leaves in the u8 counter
CounterLeft ==
  IF RetryExhausted THEN U8 - 1
  ELSE CHG_PRI_MAX_RETRIES - Len(RetryReads)

\* the call went past the presence check into stage 1, where the budgets are set
ReachedStage1 == \E i \in DOMAIN log : IsWrite(log[i], "phy_sus", TRUE)

\* C35 as stated: when a rockchip_chg_get_type call returns, primary_retries
\* is 255 if the retry stage ended with both attempts reading cp_det false
\* (SDP), and on every other path 2 (no retry attempt), 1 (the first attempt
\* read true) or 0 (the second did).
C35_CounterOnEveryPath ==
  (Returned /\ op = "chg_get_type") =>
    /\ primary_retries = CounterLeft
    /\ RetryExhausted => ret = POWER_SUPPLY_TYPE_USB
    /\ ~RetryExhausted =>
         \A k \in DOMAIN RetryReads :
           RetryReads[k].e.en <=> k = Len(RetryReads)

\* C35, amended: the same for a call that went past the presence check into
\* stage 1; a call that returns before (Unknown, or SDP on the
\* CONFIG_ROCKCHIP_RK3036 build) leaves primary_retries as it found it.
C35_CounterAtReturn ==
  (Returned /\ op = "chg_get_type") =>
    IF ReachedStage1
    THEN /\ primary_retries = CounterLeft
         /\ RetryExhausted => ret = POWER_SUPPLY_TYPE_USB
         /\ ~RetryExhausted =>
              \A k \in DOMAIN RetryReads :
                RetryReads[k].e.en <=> k = Len(RetryReads)
    ELSE RetryReads = << >>

\* C35 witness: both retry attempts read false, the call returned SDP and the
\* counter has wrapped to 255
C35_Witness ==
  /\ Returned
  /\ op = "chg_get_type"
  /\ ReachedStage1
  /\ RetryExhausted
  /\ ret = POWER_SUPPLY_TYPE_USB
  /\ primary_retries = 255

(***************************************************************************)
(* C36: otg_phy_init                                                       *)
(***************************************************************************)
\* what otg_phy_init did after its optional clkout_ctl write
PulseLog == SelectSeq(log, LAMBDA e : e.fld # "clkout_ctl")

\* C36: an otg_phy_init call that found the device has made, in this order,
\* a write of clkout_ctl enabled if and only if clkout_ctl.disable is not 0,
\* a write of the OTG phy_sus enabled, a 20 us wait, a write of the OTG
\* phy_sus disabled and a 2 ms wait, and nothing else: no register read, no
\* second round; the OTG phy_sus bits hold the disable encoding when it
\* returns.  A call that did not find the device has accessed nothing.
C36_OneShotReset ==
  op = "otg_phy_init" =>
    \/ log = << >>
    \/ /\ Len(log) = (IF cfg.clkout_ctl.disable # 0 THEN 5 ELSE 4)
       /\ cfg.clkout_ctl.disable # 0 =>
            /\ IsWrite(log[1], "clkout_ctl", TRUE)
            /\ WriteTo(log[1], cfg.clkout_ctl)
       /\ Len(PulseLog) = 4
       /\ IsWrite(PulseLog[1], "phy_sus", TRUE)
       /\ WriteTo(PulseLog[1], cfg.phy_sus[USB2PHY_PORT_OTG + 1])
       /\ PulseLog[2].op = "delay" /\ PulseLog[2].offset = 20
       /\ IsWrite(PulseLog[3], "phy_sus", FALSE)
       /\ WriteTo(PulseLog[3], cfg.phy_sus[USB2PHY_PORT_OTG + 1])
       /\ PulseLog[4].op = "delay" /\ PulseLog[4].offset = 2000
       /\ NRegReads = 0
       /\ slept = 2020
       /\ Held(regs, cfg.phy_sus[USB2PHY_PORT_OTG + 1],
               cfg.phy_sus[USB2PHY_PORT_OTG + 1].disable)

\* C36 witness: on an entry with a clkout_ctl the call has written it and
\* pulsed the suspend; the port does not read suspended
C36_Witness ==
  /\ op = "otg_phy_init"
  /\ pc = "idle"
  /\ cfg.clkout_ctl.disable # 0
  /\ Len(log) = 5
  /\ OtgPort.enable # OtgPort.disable
  /\ ~property_enabled(regs, OtgPort)

\* the same on an entry without a clkout_ctl: four steps, no clock write
C36_NoClkout ==
  /\ op = "otg_phy_init"
  /\ pc = "idle"
  /\ cfg.clkout_ctl = Absent
  /\ Len(log) = 4
  /\ \A i \in DOMAIN log : log[i].fld # "clkout_ctl"

(***************************************************************************)
(* C37: the regmap behind every access                                     *)
(***************************************************************************)
\* the register accesses of the last operation
Accesses == SelectSeq(log, LAMBDA e : e.op \in { "read", "write" })

\* C37: every register access of rockchip_chg_get_type,
\* rockchip_usb2phy_init, rockchip_usb2phy_exit and otg_phy_init goes to the
\* USB GRF when rphy has one and to the GRF when it has none; with a USB GRF
\* no access goes to the GRF.
C37_BankSelection ==
  op \in { "chg_get_type", "init", "exit", "otg_phy_init" } =>
    \A i \in DOMAIN Accesses :
      /\ usbgrf_base = "usbgrf" => Accesses[i].base = "usbgrf"
      /\ usbgrf_base = NULL => Accesses[i].base = "grf"
      /\ Accesses[i].base \in { "usbgrf", "grf" }

\* C37 witness: on a node with a USB GRF a detection has read and written it
C37_Witness ==
  /\ usbgrf_base = "usbgrf"
  /\ op = "chg_get_type"
  /\ Returned
  /\ \E i \in DOMAIN Accesses : Accesses[i].op = "read"
  /\ \E i \in DOMAIN Accesses : Accesses[i].op = "write"
  /\ \A i \in DOMAIN Accesses : Accesses[i].base # grf_base

\* on a node without one the port operations write the GRF
C37_GrfOnly ==
  /\ usbgrf_base = NULL
  /\ op \in { "init", "exit", "otg_phy_init" }
  /\ Accesses # << >>
  /\ \A i \in DOMAIN Accesses : Accesses[i].base = grf_base

(***************************************************************************)
(* C38: rockchip_usb2phy_init / _exit as absolute writes                   *)
(***************************************************************************)
PortSus(id) == cfg.phy_sus[id + 1]

\* the two ports' phy_sus fields have no register bit in common
SusDisjoint ==
  ~Overlap(PortSus(USB2PHY_PORT_OTG), PortSus(USB2PHY_PORT_HOST))

\* the step is a call of init / exit on port id
InitOn(id) == rockchip_usb2phy_init(id)
ExitOn(id) == rockchip_usb2phy_exit(id)

\* the last operation was init / exit on port id
WasInit(id) == op = "init" /\ log # << >> /\ log[1].fld = PortName(id)
WasExit(id) == op = "exit" /\ log # << >> /\ log[1].fld = PortName(id)

\* the step changes nothing in the registers but bits of port id's phy_sus
OnlySus(id) ==
  \A o \in DOMAIN regs :
    \A b \in BitPos :
      (b \in regs'[o]) # (b \in regs[o]) =>
        /\ o = PortSus(id).offset
        /\ PortSus(id).bitstart <= b
        /\ b <= PortSus(id).bitend

\* C38: on an entry whose two phy_sus fields have no bit in common, a call
\* of rockchip_usb2phy_init on port p leaves p's phy_sus bits at the disable
\* encoding and a call of rockchip_usb2phy_exit at the enable encoding,
\* whatever they held; a second call of the same operation on the same port
\* changes nothing; and p's bits change in no step but an init or exit on p,
\* which changes no other bit.
C38_LastWriterWins ==
  [][SusDisjoint =>
       \A p \in Ports :
         /\ InitOn(p) =>
              /\ Held(regs', PortSus(p), PortSus(p).disable)
              /\ OnlySus(p)
              /\ WasInit(p) => regs' = regs
         /\ ExitOn(p) =>
              /\ Held(regs', PortSus(p), PortSus(p).enable)
              /\ OnlySus(p)
              /\ WasExit(p) => regs' = regs
         /\ FieldBits(regs'[PortSus(p).offset], PortSus(p))
              # FieldBits(regs[PortSus(p).offset], PortSus(p)) =>
              InitOn(p) \/ ExitOn(p)]_vars

\* C38 witness: on rk3399 the OTG port was initialised, the Host port exited
\* last, and each field holds what its own last call wrote
C38_Witness ==
  /\ cfg = rk3399_cfg
  /\ SusDisjoint
  /\ WasExit(USB2PHY_PORT_HOST)
  /\ Held(regs, PortSus(USB2PHY_PORT_OTG), PortSus(USB2PHY_PORT_OTG).disable)
  /\ Held(regs, PortSus(USB2PHY_PORT_HOST), PortSus(USB2PHY_PORT_HOST).enable)

(***************************************************************************)
(* C39: the frame of one property_enable                                   *)
(***************************************************************************)
\* the field lies in the writable half-word and its encodings fit its width
LowFit(reg) == reg.bitend < U2PHY_BIT_WRITEABLE_SHIFT /\ Fits(reg)

\* the register bits that differ between this state and the next
Changed ==
  { c \in (DOMAIN regs) \X BitPos :
      (c[2] \in regs'[c[1]]) # (c[2] \in regs[c[1]]) }

\* C39: a property_enable on a field within bits 0..15 whose encodings fit
\* changes no register bit but bits bitstart..bitend of the register at the
\* field's offset, so property_enabled of every field at another offset or on
\* other bits returns what it returned before; the call is one write and no
\* read of the register.
C39_WriteFrame ==
  [][\A f \in FieldNames, en \in BOOLEAN :
       (AccessorWrite(f, en) /\ LowFit(FieldOf(cfg, f))) =>
         /\ \A c \in Changed :
              /\ c[1] = FieldOf(cfg, f).offset
              /\ c[2] \in FieldOf(cfg, f).bitstart .. FieldOf(cfg, f).bitend
         /\ \A g \in FieldNames :
              ~Overlap(FieldOf(cfg, g), FieldOf(cfg, f)) =>
                (property_enabled(regs', FieldOf(cfg, g))
                   <=> property_enabled(regs, FieldOf(cfg, g)))
         /\ OneAccess
         /\ NewAccess.op = "write"]_vars

\* C39 witness: two writes on fields of one register with bits of their own,
\* on a register that held ones: the second field was written disabled and
\* the first, written enabled before, still reads enabled among the ones
C39_Witness ==
  /\ op = "property_enable"
  /\ Len(log) = 2
  /\ log[1].op = "write" /\ log[2].op = "write"
  /\ log[1].en /\ ~log[2].en
  /\ log[1].offset = log[2].offset
  /\ LowFit(FieldOf(cfg, log[1].fld)) /\ LowFit(FieldOf(cfg, log[2].fld))
  /\ ~Overlap(FieldOf(cfg, log[1].fld), FieldOf(cfg, log[2].fld))
  /\ property_enabled(regs, FieldOf(cfg, log[1].fld))
  /\ ~property_enabled(regs, FieldOf(cfg, log[2].fld))
  /\ regs[log[1].offset] \cap LowHalf
       \notin { {}, LowHalf }

====
